---------------------------- MODULE Spec2Model ----------------------------
(***************************************************************************)
(* ZekaEngine: the configuration compiler (zeka_config), the field         *)
(* arithmetic and DFA extraction (zeka_crypto) and the scoring engine      *)
(* (zeka_engine), as state machines.                                       *)
(*                                                                         *)
(* Integers are unbounded in the source (rug::Integer).  The arithmetic    *)
(* operators below are computed as the source computes them, on moduli     *)
(* small enough for the model checker.                                     *)
(***************************************************************************)
EXTENDS Integers, Sequences, FiniteSets, TLC

VARIABLES
    fpc,               \* position of a function-level run: "in", "mid", "out"
    fin,               \* the inputs of a function-level run
    fout,              \* the outputs of a function-level run
    pc,                \* position of the compiler / engine pipeline
    cfg,               \* the configuration document handed to the compiler
    errs,              \* parse_yaml_doc: number of diagnostics collected
    expr_checks,       \* parse_yaml_doc: (vuln_text, start, end, expr_transitions) per rule
    states,            \* TransitionsBuilder.states
    l1_transitions,    \* TransitionsBuilder.l1_transitions
    l2_transitions,    \* TransitionsBuilder.l2_transitions
    l3_transitions,    \* TransitionsBuilder.l3_transitions
    encoded,           \* encode_expressions: what it printed per rule and leaf
    container,         \* the artifact (zeka.dat) as the engine deserialises it
    files,             \* the file system: path -> sequence of lines
    saved_vars,        \* engine: var_ident -> set of L3 halting states
    ident_eval_stack,  \* engine: set of (ciphertext, tag, expr_dfa_start, ident)
    scored_vulns,      \* engine: the Vec of decrypted plaintexts of the last tick
    old_hash,          \* engine: hash of the scored Vec kept from the earlier ticks
    check_id,          \* engine: the number of the next tick
    last_events,       \* the event map the evaluator received last
    last_read,         \* path -> the content read at its latest Etw/Fanotify event
    report,            \* engine: report.html as written last
    notified,          \* engine: whether the last tick showed the notification
    senders,           \* the live Sender handles of the event channel
    event_chan,        \* the events sent and not yet received by the collector
    sent,              \* the number of events sent so far
    event_map,         \* collector: path -> metadata
    set_chan,          \* the maps forwarded and not yet received by the evaluator
    collector_pc,      \* collector thread: "run", "done"
    evaluator_pc,      \* evaluator loop: "run", "done"
    window,            \* the events the collector received since its last forward
    forwarded,         \* every map forwarded so far, with the window it came from
    processed          \* every map the evaluator has processed so far

vars == <<fpc, fin, fout, pc, cfg, errs, expr_checks, states, l1_transitions,
          l2_transitions, l3_transitions, encoded, container, files, saved_vars,
          ident_eval_stack, scored_vulns, old_hash, check_id, last_events, last_read, report,
          notified, senders, event_chan, sent, event_map, set_chan, collector_pc,
          evaluator_pc, window, forwarded, processed>>

fvars == <<fpc, fin, fout>>

mvars == <<pc, cfg, errs, expr_checks, states, l1_transitions, l2_transitions,
           l3_transitions, encoded, container, files, saved_vars,
           ident_eval_stack, scored_vulns, old_hash, check_id, last_events, last_read, report,
           notified>>

tvars == <<senders, event_chan, sent, event_map, set_chan, collector_pc, evaluator_pc,
           window, forwarded, processed>>

-----------------------------------------------------------------------------
(* Sequences and sets                                                      *)

Range(s) == {s[i] : i \in 1..Len(s)}

\* The sequence with every element evaluated once (a function constructor is
\* re-evaluated at each application otherwise)
Vec(s) == s \o <<>>

\* The same for a function over any domain
Map(f) == f @@ <<>>

Reverse(s) == Vec([i \in 1..Len(s) |-> s[Len(s) + 1 - i]])

Min(S) == CHOOSE m \in S : \A o \in S : m <= o

Max(S) == CHOOSE m \in S : \A o \in S : m >= o

\* All sequences over S of length lo..hi
SeqsOf(S, lo, hi) == UNION {[1..n -> S] : n \in lo..hi}

-----------------------------------------------------------------------------
(* rug::Integer helpers                                                    *)

\* Integer::significant_bits
RECURSIVE significant_bits(_)
significant_bits(n) == IF n = 0 THEN 0 ELSE 1 + significant_bits(n \div 2)

\* Integer::get_bit
get_bit(n, k) == (n \div (2 ^ k)) % 2

\* Integer::set_bit
set_bit(n, k, val) ==
    IF val THEN (IF get_bit(n, k) = 1 THEN n ELSE n + 2 ^ k)
           ELSE (IF get_bit(n, k) = 1 THEN n - 2 ^ k ELSE n)

\* RugIntoBytes::to_bytes: least significant byte first, no trailing zero byte
RECURSIVE to_bytes(_)
to_bytes(val) == IF val = 0 THEN <<>> ELSE <<val % 256>> \o to_bytes(val \div 256)

\* Integer::from_digits(_, Order::Msf)
RECURSIVE from_digits_msf(_)
from_digits_msf(bytes) ==
    IF bytes = <<>> THEN 0
    ELSE 256 * from_digits_msf(SubSeq(bytes, 1, Len(bytes) - 1)) + bytes[Len(bytes)]

\* Integer::from_digits(_, Order::Lsf)
from_digits_lsf(bytes) == from_digits_msf(Reverse(bytes))

\* Integer::pow_mod with a non-negative exponent
RECURSIVE pow_mod(_, _, _)
pow_mod(x, e, p) == IF e = 0 THEN 1 % p ELSE ((x % p) * pow_mod(x, e - 1, p)) % p

NoInverse == -1

\* Extended Euclid: <<g, u, v>> with a*u + b*v = g = gcd(a, b)
RECURSIVE egcd(_, _)
egcd(a, b) ==
    IF b = 0 THEN <<a, 1, 0>>
    ELSE LET r == egcd(b, a % b)
         IN  <<r[1], r[3], r[2] - (a \div b) * r[3]>>

\* Integer::invert: the inverse of a modulo p, or NoInverse
invert(a, p) ==
    LET r == egcd(a % p, p)
    IN  IF r[1] = 1 THEN r[2] % p ELSE NoInverse

IsPrime(n) == n >= 2 /\ \A d \in 2..(n - 1) : n % d # 0

-----------------------------------------------------------------------------
(* zeka_crypto::numbers                                                    *)

get_eligible_bits_of_nth_size(n, p) ==
    LET eligible_bits == significant_bits(p) \div n
        max_arbitrary_nth_mask == (2 ^ eligible_bits - 1) * 2 ^ (eligible_bits * (n - 1))
        \* mask & p: the bits of p at the positions of the mask
        masked == ((p \div 2 ^ (eligible_bits * (n - 1))) % 2 ^ eligible_bits)
                      * 2 ^ (eligible_bits * (n - 1))
    IN  IF eligible_bits * n = significant_bits(p) /\ masked < max_arbitrary_nth_mask
        THEN eligible_bits - 1
        ELSE eligible_bits

\* The m-th mask from the left of one n-th of the bit length of p (0 where
\* the function panics)
get_mth_mask_of_nth_size(m, n, p) ==
    LET eligible_bits == get_eligible_bits_of_nth_size(n, p)
    IN  IF eligible_bits = 0 \/ m > n \/ m = 0 THEN 0
        ELSE (2 ^ eligible_bits - 1)
                 * 2 ^ (eligible_bits * (significant_bits(p) \div eligible_bits - m))

\* A panic of a function that returns an Integer, and of one that returns a Vec
Unwind == -1

Panic == <<Unwind>>

get_parts_of_one_nth_size_norev(N, x, p) ==
    LET eligible_bits == get_eligible_bits_of_nth_size(N, p)
    IN  IF eligible_bits = 0 THEN Panic
        ELSE Vec([k \in 1..N |-> (x \div 2 ^ (eligible_bits * (k - 1))) % 2 ^ eligible_bits])

\* parts[k] is pushed for i = N - k (the loop runs i over (0..N).rev())
get_parts_of_one_nth_size(N, x, p) ==
    LET eligible_bits == get_eligible_bits_of_nth_size(N, p)
    IN  IF eligible_bits = 0 THEN Panic
        ELSE Vec([k \in 1..N |-> (x \div 2 ^ (eligible_bits * (N - k))) % 2 ^ eligible_bits])

RECURSIVE pack_loop(_, _, _, _, _)
pack_loop(parts, n, max_expected, i, packed) ==
    IF i > Len(parts) THEN packed
    ELSE IF significant_bits(parts[i]) > max_expected THEN Unwind
    ELSE LET added == packed + parts[i]
         IN  pack_loop(parts, n, max_expected, i + 1,
                       IF i - 1 < n - 1 THEN added * 2 ^ max_expected ELSE added)

\* The packed value, or Unwind (wrong number of parts, or a part too wide)
pack_nth_parts_into_size(parts, n, p) ==
    IF Len(parts) # n THEN Unwind
    ELSE pack_loop(parts, n, get_eligible_bits_of_nth_size(n, p), 1, 0)

\* The triangular number of a + b alone, without the "+ b"
cantor_pairing_mod_triangle(a, b, p) ==
    LET inv2 == invert(2, p)
    IN  IF inv2 = NoInverse THEN Unwind
        ELSE ((inv2 * (((a + b) % p) * ((a + b + 1) % p) % p)) % p) % p

cantor_pairing_mod(a, b, p) ==
    LET inv2 == invert(2, p)
    IN  IF inv2 = NoInverse THEN Unwind
        ELSE (((inv2 * (((a + b) % p) * ((a + b + 1) % p) % p)) % p) + b) % p

-----------------------------------------------------------------------------
(* zeka_crypto::lagrange                                                   *)

\* result[i + j] accumulates a * b over the pairs (i, j), reduced at every step
poly_mul_mod(poly1, poly2, p) ==
    Vec([m \in 1..(Len(poly1) + Len(poly2) - 1) |->
        LET Terms == {i \in 1..Len(poly1) : m + 1 - i \in 1..Len(poly2)}
            RECURSIVE Sum(_)
            Sum(T) == IF T = {} THEN 0
                      ELSE LET i == Min(T)
                           IN  (poly1[i] * poly2[m + 1 - i] + Sum(T \ {i})) % p
        IN  Sum(Terms) % p])

poly_add_mod(poly1, poly2, p) ==
    LET n == IF Len(poly1) >= Len(poly2) THEN Len(poly1) ELSE Len(poly2)
    IN  Vec([i \in 1..n |->
            ((IF i <= Len(poly1) THEN poly1[i] ELSE 0)
             + (IF i <= Len(poly2) THEN poly2[i] ELSE 0)) % p])

RECURSIVE basis_terms_swapped(_, _, _, _)
basis_terms_swapped(x_s, i, j, p) ==
    IF j = 0 THEN << <<1>>, 1 >>
    ELSE LET prev == basis_terms_swapped(x_s, i, j - 1, p)
         IN  IF j = i THEN prev
             ELSE << poly_mul_mod(prev[1], <<-x_s[j], 1>>, p),
                     (prev[2] * ((x_s[j] - x_s[i]) % p)) % p >>

\* numerator and denominator of the i-th basis polynomial after the inner
\* loop has run over the indices 1..j
RECURSIVE basis_terms(_, _, _, _)
basis_terms(x_s, i, j, p) ==
    IF j = 0 THEN << <<1>>, 1 >>
    ELSE LET prev == basis_terms(x_s, i, j - 1, p)
         IN  IF j = i THEN prev
             ELSE << poly_mul_mod(prev[1], <<-x_s[j], 1>>, p),
                     (prev[2] * ((x_s[i] - x_s[j]) % p)) % p >>

\* result after the outer loop has run over the indices 1..i
RECURSIVE generate_poly_loop(_, _, _, _)
generate_poly_loop(x_s, y_s, p, i) ==
    IF i = 0 THEN Vec([c \in 1..Len(x_s) |-> 0])
    ELSE LET result == generate_poly_loop(x_s, y_s, p, i - 1)
             nd     == basis_terms(x_s, i, Len(x_s), p)
             inv    == invert(nd[2], p)
         IN  IF result = Panic \/ inv = NoInverse THEN Panic
             ELSE LET l_i   == Vec([c \in 1..Len(nd[1]) |-> (nd[1][c] * inv) % p])
                      basis == Vec([c \in 1..Len(l_i) |-> (l_i[c] * y_s[i]) % p])
                  IN  poly_add_mod(result, basis, p)

\* The coefficients, low degree first, or Panic (assert, or no inverse)
generate_poly(x_s, y_s, p) ==
    IF Len(x_s) # Len(y_s) THEN Panic
    ELSE generate_poly_loop(x_s, y_s, p, Len(x_s))

RECURSIVE evaluate_loop(_, _, _, _, _)
evaluate_loop(poly, x, p, i, result) ==
    IF i > Len(poly) THEN result
    ELSE evaluate_loop(poly, x, p, i + 1, (result + poly[i] * pow_mod(x, i - 1, p)) % p)

evaluate_poly_at_mod(poly, x, p) ==
    IF Len(poly) = 1 THEN poly[1]
    ELSE evaluate_loop(poly, x, p, 2, poly[1])

-----------------------------------------------------------------------------
(* zeka_crypto::dfa                                                        *)

\* The bytes the model's files and haystacks are written in
TAB == 9
SP == 32
CH_A == 97
CH_B == 98

\* What the DFA library hands to parse_class_transitions for a pattern: the lines
\* of its debug dump (state id, whether the line holds a '*', the transitions
\* with their unit ranges; transitions to the dead state are not printed) and
\* its byte classes (unit -> the bytes of that class).
ByteTr(lo, hi, next) == [kind |-> "byte", lo |-> lo, hi |-> hi, next |-> next]

EoiTr(next) == [kind |-> "eoi", lo |-> 0, hi |-> 0, next |-> next]

DumpLine(state, star, trans) == [state |-> state, star |-> star, trans |-> trans]

\* The dumps list the dead state first, then the match state, then the
\* start states; a unit is a byte class, and a transition to the dead state
\* is not printed.
\* ^a( a)*$ : unit 1 = {a}, unit 2 = {space}
DFA_AS ==
    [lines |-> << DumpLine(0, FALSE, <<>>),
                  DumpLine(14, TRUE, <<>>),
                  DumpLine(21, FALSE, <<ByteTr(1, 1, 47)>>),
                  DumpLine(35, FALSE, <<ByteTr(1, 1, 47)>>),
                  DumpLine(47, FALSE, <<ByteTr(2, 2, 52), EoiTr(14)>>),
                  DumpLine(52, FALSE, <<ByteTr(1, 1, 47)>>) >>,
     classes |-> (1 :> {CH_A}) @@ (2 :> {SP})]

\* ^b$ : unit 1 = {b}
DFA_B ==
    [lines |-> << DumpLine(0, FALSE, <<>>),
                  DumpLine(14, TRUE, <<>>),
                  DumpLine(21, FALSE, <<ByteTr(1, 1, 40)>>),
                  DumpLine(35, FALSE, <<ByteTr(1, 1, 40)>>),
                  DumpLine(40, FALSE, <<EoiTr(14)>>) >>,
     classes |-> (1 :> {CH_B})]

\* ^[ab][\t ]b$ : units 1-2 are printed as one range; unit 1 = {a}, unit 2 = {b},
\* unit 3 = {tab, space}
DFA_CLS ==
    [lines |-> << DumpLine(0, FALSE, <<>>),
                  DumpLine(14, TRUE, <<>>),
                  DumpLine(21, FALSE, <<ByteTr(1, 2, 39)>>),
                  DumpLine(35, FALSE, <<ByteTr(1, 2, 39)>>),
                  DumpLine(39, FALSE, <<ByteTr(3, 3, 43)>>),
                  DumpLine(43, FALSE, <<ByteTr(2, 2, 50)>>),
                  DumpLine(50, FALSE, <<EoiTr(14)>>) >>,
     classes |-> (1 :> {CH_A}) @@ (2 :> {CH_B}) @@ (3 :> {TAB, SP})]

\* A dump with two lines that hold a '*' (^(a|b)$ with a match state after
\* each branch): unit 1 = {a}, unit 2 = {b}
DFA_TWO ==
    [lines |-> << DumpLine(0, FALSE, <<>>),
                  DumpLine(14, TRUE, <<>>),
                  DumpLine(15, TRUE, <<>>),
                  DumpLine(21, FALSE, <<ByteTr(1, 1, 40), ByteTr(2, 2, 44)>>),
                  DumpLine(35, FALSE, <<ByteTr(1, 1, 40), ByteTr(2, 2, 44)>>),
                  DumpLine(40, FALSE, <<EoiTr(14)>>),
                  DumpLine(44, FALSE, <<EoiTr(15)>>) >>,
     classes |-> (1 :> {CH_A}) @@ (2 :> {CH_B})]

\* U+00E9, and the two bytes of its UTF-8 encoding
CH_E_ACUTE == 233
UTF8_LEAD_C3 == 195
UTF8_CONT_A9 == 169

\* ^\u{e9}$ : the automaton runs on bytes; unit 1 = {0xC3}, unit 2 = {0xA9}
DFA_E ==
    [lines |-> << DumpLine(0, FALSE, <<>>),
                  DumpLine(14, TRUE, <<>>),
                  DumpLine(21, FALSE, <<ByteTr(1, 1, 40)>>),
                  DumpLine(35, FALSE, <<ByteTr(1, 1, 40)>>),
                  DumpLine(40, FALSE, <<ByteTr(2, 2, 44)>>),
                  DumpLine(44, FALSE, <<EoiTr(14)>>) >>,
     classes |-> (1 :> {UTF8_LEAD_C3}) @@ (2 :> {UTF8_CONT_A9})]

\* DFA::new(pattern)
LibraryDFA(re) ==
    CASE re = "AS"  -> DFA_AS
      [] re = "B"   -> DFA_B
      [] re = "CLS" -> DFA_CLS
      [] re = "TWO" -> DFA_TWO
      [] re = "E"   -> DFA_E

Regexes == {"AS", "B", "CLS"}

\* A pattern the regex library refuses to compile, such as "a(" 
BAD_REGEX == "BAD"

\* DFA::new(&regex) is Ok
dfa_new_ok(re) == re # BAD_REGEX

\* InputClass::Eoi (InputClass::Byte(b) is b)
EOI == 256

START_STATE == 35

\* The draws of the seeded generator that the model follows
PoolLo == 16
PoolHi == 120
Pool == PoolLo..PoolHi

\* generate_point_mod until points.insert succeeds: the first draw below p
\* that is not in points
generate_unique_point_mod(p, points) == Min({x \in Pool : x < p /\ x \notin points})

generate_unique_flagless_point_mod(p, points) ==
    generate_unique_point_mod(set_bit(p, significant_bits(p) - 1, FALSE), points)

Distinct(s) == \A i, j \in 1..Len(s) : i # j => s[i] # s[j]

RECURSIVE ConcatFrom(_, _)
ConcatFrom(ss, i) == IF i > Len(ss) THEN <<>> ELSE ss[i] \o ConcatFrom(ss, i + 1)

ConcatAll(ss) == ConcatFrom(Vec(ss), 1)

RECURSIVE SortSet(_)
SortSet(S) == IF S = {} THEN <<>> ELSE <<Min(S)>> \o SortSet(S \ {Min(S)})

\* One printed transition: a unit range pushes one class transition per unit
ExpandTr(from, tr) ==
    IF tr.kind = "eoi" THEN << <<from, tr.next, EOI>> >>
    ELSE Vec([k \in 1..(tr.hi - tr.lo + 1) |-> <<from, tr.next, tr.lo + k - 1>>])

class_transitions(dfa) ==
    ConcatAll([l \in 1..Len(dfa.lines) |->
        ConcatAll([t \in 1..Len(dfa.lines[l].trans) |->
            ExpandTr(dfa.lines[l].state, dfa.lines[l].trans[t])])])

\* accepting_state starts at 0 and is overwritten by every line that holds a '*'
accepting_state(dfa) ==
    LET starred == {l \in 1..Len(dfa.lines) : dfa.lines[l].star}
    IN  IF starred = {} THEN 0 ELSE dfa.lines[Max(starred)].state

RECURSIVE reach_from(_, _)
reach_from(adjacents, reached) ==
    LET more == {e[2] : e \in {e \in adjacents : e[1] \in reached}} \ reached
    IN  IF more = {} THEN reached ELSE reach_from(adjacents, reached \cup more)

\* Every state of the dump, reachable or not
all_states(dfa) == {dfa.lines[l].state : l \in 1..Len(dfa.lines)}

reachable(dfa) ==
    reach_from({<<t[1], t[2]>> : t \in Range(class_transitions(dfa))}, {START_STATE})

\* the n first successful draws, each inserted before the next
RECURSIVE fresh_ids(_, _, _)
fresh_ids(p, points, n) ==
    IF n = 0 THEN <<>>
    ELSE LET id == generate_unique_point_mod(p, points)
         IN  <<id>> \o fresh_ids(p, points \cup {id}, n - 1)

\* id_mapping: usize state -> L3 point, the reachable states in ascending order
id_mapping(dfa, p, points) ==
    LET order == SortSet(reachable(dfa))
        ids   == fresh_ids(p, points, Len(order))
    IN  Map([s \in reachable(dfa) |-> ids[CHOOSE k \in 1..Len(order) : order[k] = s]])

expand_class_first_only(classes, from_id, to_id, class) ==
    IF class = EOI THEN << <<from_id, to_id, EOI>> >>
    ELSE LET bytes == SortSet(IF class \in DOMAIN classes THEN classes[class] ELSE {})
         IN  IF bytes = <<>> THEN <<>> ELSE << <<from_id, to_id, bytes[1]>> >>

\* "Translate equivalence classes to individual bytes"
expand_class(classes, from_id, to_id, class) ==
    IF class = EOI THEN << <<from_id, to_id, EOI>> >>
    ELSE LET bytes == SortSet(IF class \in DOMAIN classes THEN classes[class] ELSE {})
         IN  Vec([k \in 1..Len(bytes) |-> <<from_id, to_id, bytes[k]>>])

\* (start, end, transitions) and the grown point set; panicked when the
\* accepting state has no id (id_mapping[&accepting_state])
parse_class_transitions(dfa, p, dfa_states) ==
    LET kept == SelectSeq(class_transitions(dfa), LAMBDA t : t[1] \in reachable(dfa))
        ids  == id_mapping(dfa, p, dfa_states)
    IN  IF accepting_state(dfa) \notin DOMAIN ids
        THEN [panicked |-> TRUE, start |-> 0, end |-> 0, transitions |-> <<>>,
              states |-> dfa_states]
        ELSE [panicked    |-> FALSE,
              start       |-> ids[START_STATE],
              end         |-> ids[accepting_state(dfa)],
              transitions |-> ConcatAll([k \in 1..Len(kept) |->
                                  expand_class(dfa.classes, ids[kept[k][1]],
                                               ids[kept[k][2]], kept[k][3])]),
              states      |-> dfa_states \cup {ids[s] : s \in DOMAIN ids}]

\* .iter().find(..): the first transition of the list from state on input
find_transition(dfa_transitions, state, input) ==
    LET hits == {k \in 1..Len(dfa_transitions) :
                    dfa_transitions[k][1] = state /\ dfa_transitions[k][3] = input}
    IN  IF hits = {} THEN 0 ELSE Min(hits)

\* A walk that gives up (state -1) on a byte without a transition
RECURSIVE walk_bytes_strict(_, _, _)
walk_bytes_strict(dfa_transitions, state, haystack) ==
    IF haystack = <<>> THEN state
    ELSE LET k == find_transition(dfa_transitions, state, Head(haystack))
         IN  IF k = 0 THEN -1
             ELSE walk_bytes_strict(dfa_transitions, dfa_transitions[k][2], Tail(haystack))

RECURSIVE walk_bytes(_, _, _)
walk_bytes(dfa_transitions, state, haystack) ==
    IF haystack = <<>> THEN state
    ELSE LET k == find_transition(dfa_transitions, state, Head(haystack))
         IN  walk_bytes(dfa_transitions,
                        IF k = 0 THEN state ELSE dfa_transitions[k][2],
                        Tail(haystack))

walk_transitions(dfa_transitions, start, end, haystack) ==
    LET state == walk_bytes(dfa_transitions, start, haystack)
        k     == find_transition(dfa_transitions, state, EOI)
    IN  (IF k = 0 THEN state ELSE dfa_transitions[k][2]) = end

-----------------------------------------------------------------------------
(* The regex engine on the same automaton (what is_match answers): a byte   *)
(* without a transition leads to the dead state.                            *)

DEAD == 0

LibNext(dfa, state, input) ==
    LET units == IF input = EOI THEN {EOI}
                 ELSE {u \in DOMAIN dfa.classes : input \in dfa.classes[u]}
        hits  == {<<l, t>> \in (1..Len(dfa.lines)) \X (1..4) :
                     /\ dfa.lines[l].state = state
                     /\ t <= Len(dfa.lines[l].trans)
                     /\ LET tr == dfa.lines[l].trans[t]
                        IN  IF input = EOI THEN tr.kind = "eoi"
                            ELSE tr.kind = "byte" /\ \E u \in units : tr.lo <= u /\ u <= tr.hi}
    IN  IF hits = {} THEN DEAD
        ELSE LET h == CHOOSE h \in hits : TRUE IN dfa.lines[h[1]].trans[h[2]].next

RECURSIVE LibRun(_, _, _)
LibRun(dfa, state, s) ==
    IF s = <<>> THEN state ELSE LibRun(dfa, LibNext(dfa, state, Head(s)), Tail(s))

IsMatchState(dfa, state) ==
    \E l \in 1..Len(dfa.lines) : dfa.lines[l].state = state /\ dfa.lines[l].star

is_full_match(re, s) ==
    LET dfa == LibraryDFA(re)
    IN  IsMatchState(dfa, LibNext(dfa, LibRun(dfa, START_STATE, s), EOI))

-----------------------------------------------------------------------------
(* zeka_crypto::consts, scaled.  The source moduli have 535 and 256 bits;   *)
(* the model keeps what the code relies on: EXPR_FIELD_MOD and              *)
(* DFA_FIELD_MOD are the same odd prime, every drawn point lies far below   *)
(* 2^(bits - 1), and VAR_COMPONENT_MAX is all ones.  A value packed from    *)
(* four parts (var_1, expr_1) is kept as the tuple of its parts, which is   *)
(* what get_parts_of_one_nth_size gives back for parts that fit; bit        *)
(* 4 * bits(VAR_COMPONENT_MAX) - 1 of var_1 is then the top bit of part 0.  *)

EXPR_FIELD_MOD == 65521

DFA_FIELD_MOD == 65521

VAR_COMPONENT_MAX == 255

EXPR_COMPONENT_MAX == 127

\* The value of an interpolant at a point that is not one of its x: some
\* field element that is none of the values the compiler stored
Junk == -1

\* AES-GCM tag length (16 in the source)
TagLen == 2

\* VULN_FIELD_MOD.significant_bits()
VULN_FIELD_BITS == 535

\* A limit without the margin
max_bytes_no_margin(bits) == bits \div 8

\* let max_bytes = consts::VULN_FIELD_MOD.significant_bits() / 8 - 8
max_bytes(bits) == bits \div 8 - 8

-----------------------------------------------------------------------------
(* Text: lines of a file, str::trim, Regex::replace                         *)

IsWs(c) == c \in {TAB, SP}

RECURSIVE trim_start(_)
trim_start(line) ==
    IF line # <<>> /\ IsWs(Head(line)) THEN trim_start(Tail(line)) ELSE line

trim(line) == Reverse(trim_start(Reverse(trim_start(line))))

\* ws.replace(line, " "): only the leftmost match of \s+ is replaced
RECURSIVE ws_replace(_)
ws_replace(line) ==
    IF line = <<>> THEN <<>>
    ELSE IF IsWs(Head(line)) THEN <<SP>> \o trim_start(line)
    ELSE <<Head(line)>> \o ws_replace(Tail(line))

\* every match of \s+ replaced (Regex::replace_all)
RECURSIVE ws_replace_all(_)
ws_replace_all(line) ==
    IF line = <<>> THEN <<>>
    ELSE IF IsWs(Head(line)) THEN <<SP>> \o ws_replace_all(trim_start(line))
    ELSE <<Head(line)>> \o ws_replace_all(Tail(line))

\* Lexicographic order of byte strings (String: Ord)
RECURSIVE str_le(_, _)
str_le(a, b) ==
    IF a = <<>> THEN TRUE
    ELSE IF b = <<>> THEN FALSE
    ELSE IF Head(a) # Head(b) THEN Head(a) < Head(b)
    ELSE str_le(Tail(a), Tail(b))

\* Vec::sort
RECURSIVE sort(_)
sort(v) ==
    IF v = <<>> THEN <<>>
    ELSE LET rest == sort(Tail(v))
             before == SelectSeq(rest, LAMBDA e : ~str_le(Head(v), e))
             after  == SelectSeq(rest, LAMBDA e : str_le(Head(v), e))
         IN  before \o <<Head(v)>> \o after

\* hash_vec: equal vectors have equal hashes
hash_vec(vec) == [hash_of |-> vec]

-----------------------------------------------------------------------------
(* Configuration documents.  A node of a pass clause is a mapping with one  *)
(* key: and / or with a list of children, or a check type with arguments.   *)
(* A regex argument names a normalised regex of the dump catalogue.         *)

P_A == <<47, 97>>
P_B == <<47, 98>>

AllPaths == <<P_A, P_B>>

Leaf(path, re) == [k |-> "regex", args |-> <<path, re>>, ch |-> <<>>]
LeafOf(args) == [k |-> "regex", args |-> args, ch |-> <<>>]
And(ch) == [k |-> "and", args |-> <<>>, ch |-> ch]
Or(ch) == [k |-> "or", args |-> <<>>, ch |-> ch]
\* A check of the document: its metadata key, category, pass and fail clause
RuleWithFail(text, category, pass, fail) ==
    [text |-> text, category |-> category, pass |-> pass, fail |-> fail]

Rule(text, category, pass) == RuleWithFail(text, category, pass, <<>>)

CATEGORIES ==
    << "fq", "user_auditing", "account_policy", "local_policy",
       "defensive_countermeasure", "uncategorized", "service_auditing",
       "os_update", "app_update", "prohibited_file", "unwanted_software",
       "malware", "appsec" >>

TEXT_X == <<88>>
TEXT_Y == <<89>>

\* A text of one byte more than fits: max_bytes(VULN_FIELD_BITS) + 1 bytes
TEXT_LONG == [k \in 1..(max_bytes(VULN_FIELD_BITS) + 1) |-> 88]

Configs ==
    { \* one rule, one leaf
      << Rule(TEXT_X, "uncategorized", <<Leaf(P_A, "B")>>) >>,
      << Rule(TEXT_X, "uncategorized", <<Leaf(P_A, "AS")>>) >>,
      \* implicit and explicit AND of leaves on one path
      << Rule(TEXT_X, "malware", <<Leaf(P_A, "B"), Leaf(P_A, "AS")>>) >>,
      << Rule(TEXT_X, "malware", <<And(<<Leaf(P_A, "B"), Leaf(P_B, "CLS")>>)>>) >>,
      \* one OR
      << Rule(TEXT_X, "appsec", <<Or(<<Leaf(P_A, "B"), Leaf(P_A, "AS")>>)>>) >>,
      << Rule(TEXT_X, "appsec",
              <<Or(<<And(<<Leaf(P_A, "B"), Leaf(P_A, "CLS")>>), Leaf(P_A, "AS")>>)>>) >>,
      << Rule(TEXT_X, "appsec",
              <<Or(<<Leaf(P_A, "B"), Leaf(P_A, "AS")>>), Leaf(P_A, "CLS")>>) >>,
      \* several OR nodes: nested, and adjacent in an AND chain
      << Rule(TEXT_X, "appsec",
              <<Or(<<Or(<<Leaf(P_A, "B"), Leaf(P_A, "AS")>>), Leaf(P_A, "CLS")>>)>>) >>,
      << Rule(TEXT_X, "appsec", <<Or(<<Leaf(P_A, "B")>>), Or(<<Leaf(P_A, "AS")>>)>>) >>,
      \* two rules that share a path
      << Rule(TEXT_X, "fq", <<Leaf(P_A, "B")>>),
         Rule(TEXT_Y, "malware", <<Leaf(P_A, "AS"), Leaf(P_B, "B")>>) >>,
      \* documents the compiler rejects
      << Rule(TEXT_X, "bogus", <<Leaf(P_A, "B")>>) >>,
      << Rule(TEXT_X, "malware", <<And(<<>>)>>) >>,
      << Rule(TEXT_X, "malware", <<[k |-> "file", args |-> <<P_A, "B">>, ch |-> <<>>]>>) >>,
      << Rule(TEXT_X, "malware", <<Leaf(P_A, "")>>) >>,
      \* regex leaves with 3, 1 and 0 arguments
      << Rule(TEXT_X, "malware", <<LeafOf(<<P_A, "B", "AS">>), Leaf(P_A, "B")>>) >>,
      << Rule(TEXT_X, "malware", <<LeafOf(<<P_A, "B", "AS">>), LeafOf(<<P_B, "B", "B", "B">>)>>) >>,
      << Rule(TEXT_X, "malware", <<LeafOf(<<P_A>>), Leaf(P_A, "B")>>) >>,
      << Rule(TEXT_X, "malware", <<Leaf(P_A, "B"), LeafOf(<<>>)>>) >>,
      \* a rule whose text is too long, before a rule that is fine
      << Rule(TEXT_LONG, "malware", <<Leaf(P_A, "B")>>),
         Rule(TEXT_Y, "malware", <<Leaf(P_A, "B")>>) >>,
      \* a leaf whose regex does not compile, after a leaf that is fine
      << Rule(TEXT_X, "malware", <<Leaf(P_A, "B"), Leaf(P_B, BAD_REGEX)>>) >>,
      \* a rule with a fail clause
      << RuleWithFail(TEXT_X, "malware", <<Leaf(P_A, "B")>>, <<Leaf(P_A, "AS")>>) >> }

\* A draw that is returned without looking at the point set
draw_unchecked(p, st) ==
    LET v == Min({x \in Pool : x < p}) IN [val |-> v, states |-> st \cup {v}]

\* Draw a fresh point below p: [val, states]
draw(p, st) ==
    LET v == generate_unique_point_mod(p, st) IN [val |-> v, states |-> st \cup {v}]

draw_flagless(p, st) ==
    LET v == generate_unique_flagless_point_mod(p, st)
    IN  [val |-> v, states |-> st \cup {v}]

\* RawRegexCheck::validate: "ok", "err" (a diagnostic was pushed) or "panic".
\* self.args[0] and self.args[1] are read before the length is looked at: an
\* index out of bounds panics.
validate(args) ==
    IF Len(args) < 2 THEN "panic"
    ELSE IF Len(args) # 2 THEN "err"
    ELSE IF SelectSeq(args[1], LAMBDA c : ~IsWs(c)) = <<>> THEN "err"
    ELSE IF args[2] = "" THEN "err"
    ELSE "ok"

\* The builder while a pass clause is parsed: the point set, the L2 list, the
\* expression transitions collected so far and the number of diagnostics
RECURSIVE recurse(_, _, _, _)
RECURSIVE and_children(_, _, _, _, _)
RECURSIVE or_children(_, _, _, _, _)

\* the loop of an AND (and of the implicit top-level AND) from child i on
and_children(children, i, current, end, b) ==
    IF i > Len(children) \/ b.panicked THEN b
    ELSE LET d    == IF i = Len(children) THEN [val |-> end, states |-> b.states]
                     ELSE draw(EXPR_FIELD_MOD, b.states)
             b1   == recurse(children[i], current, d.val, [b EXCEPT !.states = d.states])
         IN  and_children(children, i + 1, d.val, end, b1)

or_children(children, i, start, end, b) ==
    IF i > Len(children) \/ b.panicked THEN b
    ELSE or_children(children, i + 1, start, end, recurse(children[i], start, end, b))

recurse(node, start, end, b) ==
    IF node.k = "and" THEN
        IF node.ch = <<>> THEN [b EXCEPT !.errs = @ + 1]
        ELSE and_children(node.ch, 1, start, end, b)
    ELSE IF node.k = "or" THEN
        IF node.ch = <<>> THEN [b EXCEPT !.errs = @ + 1]
        ELSE LET b1 == or_children(node.ch, 1, start, end, b)
             IN  [b1 EXCEPT !.l2 = @ \o
                    << <<cantor_pairing_mod(end, 0, EXPR_FIELD_MOD), end>>,
                       <<cantor_pairing_mod(start, 0, EXPR_FIELD_MOD), start>> >>]
    ELSE \* yaml_node_to_check: the var_ident is drawn before the type is looked at
        LET d == draw_flagless(EXPR_FIELD_MOD, b.states)
            b1 == [b EXCEPT !.states = d.states]
        IN  IF node.k # "regex" THEN [b1 EXCEPT !.errs = @ + 1]
            ELSE IF validate(node.args) = "panic" THEN [b1 EXCEPT !.panicked = TRUE]
            ELSE IF validate(node.args) = "err" THEN [b1 EXCEPT !.errs = @ + 1]
            ELSE [b1 EXCEPT !.expr = Append(@,
                     [from |-> start, to |-> end, args |-> node.args,
                      var_ident |-> d.val])]

\* [start, end, b]
assign_yaml_transitions(nodes, b) ==
    LET s  == draw(EXPR_FIELD_MOD, b.states)
        e  == draw(EXPR_FIELD_MOD, s.states)
    IN  [start |-> s.val, end |-> e.val,
         b |-> and_children(nodes, 1, s.val, e.val, [b EXCEPT !.states = e.states])]

category_index(category) ==
    LET hits == {i \in 1..Len(CATEGORIES) : CATEGORIES[i] = category}
    IN  IF hits = {} THEN -1 ELSE Min(hits) - 1

\* The loop of parse_yaml_doc over the checks of the document, from rule i on.
\* The fail key of a check is kept out of the metadata and read nowhere else.
RECURSIVE parse_rules(_, _, _)
parse_rules(doc, i, b) ==
    IF i > Len(doc) \/ b.panicked THEN b
    ELSE IF Len(doc[i].text) > max_bytes(VULN_FIELD_BITS)
    THEN \* a diagnostic, and continue: the check is not compiled
         parse_rules(doc, i + 1, [b EXCEPT !.errs = @ + 1])
    ELSE LET cat == category_index(doc[i].category)
             b0  == IF cat < 0 THEN [b EXCEPT !.errs = @ + 1] ELSE b
             vuln_text == IF cat < 0 THEN doc[i].text ELSE <<cat>> \o doc[i].text
             a   == assign_yaml_transitions(doc[i].pass, [b0 EXCEPT !.expr = <<>>])
         IN  parse_rules(doc, i + 1,
                 [a.b EXCEPT !.checks = Append(@,
                     [vuln_text |-> vuln_text, start |-> a.start, end |-> a.end,
                      expr_transitions |-> a.b.expr])])

\* What parse_yaml_doc returns when the diagnostics are never looked at
parse_result_unchecked(n_errs) == "Ok"

\* if !errs.is_empty() { Err(..) } else { Ok(..) }
parse_result(n_errs) == IF n_errs > 0 THEN "Err" ELSE "Ok"

-----------------------------------------------------------------------------
(* encode_expressions                                                       *)

\* Sha256::digest(state.to_bytes()): different byte strings, different keys
aes_key(state) == to_bytes(state)

\* What encrypt_in_place_detached returns for rule ri: a ciphertext as long as
\* the plaintext and a tag of TagLen bytes, different for every rule.  The
\* first byte of either may be zero: outcome "ct0" / "tag0".
SealOutcomes == {"plain", "ct0", "tag0"}

seal(ri, outcome) ==
    [buffer |-> <<IF outcome = "ct0" THEN 0 ELSE 128 + ri, 64 + ri>>,
     tag    |-> <<IF outcome = "tag0" THEN 0 ELSE 192 + ri, 32 + ri>>]

\* if i < checks.len() - 1 (ident chain), with i counted from 1
ident_has_next_off_by_one(i, n) == i <= n

ident_has_next(i, n) == i < n

\* if i < checks.len() - 1 (vars of one path), with i counted from 1
var_has_next_off_by_one(i, n) == i <= n

var_has_next(i, n) == i < n

\* The L3 pairs of one extracted automaton
l3_pairs(dfa_transitions) ==
    Vec([k \in 1..Len(dfa_transitions) |->
        IF dfa_transitions[k][3] = EOI
        THEN <<dfa_transitions[k][1], dfa_transitions[k][2]>>
        ELSE <<cantor_pairing_mod(dfa_transitions[k][1], dfa_transitions[k][3],
                                  DFA_FIELD_MOD),
               dfa_transitions[k][2]>>])

\* One pass of the inner loop of encode_expressions: check i of n of the rule
\* being encoded, dfa being what check.encode returned; b.ident carries
\* next_test_ident1 from one pass to the next
encode_check(check, i, n, expr_1, dfa, b) ==
    LET check_dfa_start_ptr1 == draw(VAR_COMPONENT_MAX, dfa.states)
        pairs == l3_pairs(dfa.transitions)
        next_var_ptr1 ==
            draw_flagless(VAR_COMPONENT_MAX, check_dfa_start_ptr1.states
                                             \cup {pairs[k][1] : k \in 1..Len(pairs)})
        var_ident1 == check.var_ident
        next_test_ident1 == b.ident
        next_test_ident2 ==
            IF ident_has_next(i, n)
            THEN set_bit(var_ident1, significant_bits(EXPR_FIELD_MOD) - 1, TRUE)
            ELSE var_ident1
        var_ident_ptr1 == draw(VAR_COMPONENT_MAX, next_var_ptr1.states)
        var_1 == <<next_var_ptr1.val, expr_1, var_ident_ptr1.val, check_dfa_start_ptr1.val>>
    IN  IF dfa.panicked THEN [b EXCEPT !.panicked = TRUE]
        ELSE [b EXCEPT
                !.states = var_ident_ptr1.states,
                !.ident = IF ident_has_next(i, n) THEN next_test_ident2 ELSE next_test_ident1,
                !.l3 = @ \o << <<check_dfa_start_ptr1.val, dfa.start>> >> \o pairs,
                !.l2 = @ \o
                   << <<cantor_pairing_mod(check.from, dfa.end, EXPR_FIELD_MOD), check.to>>,
                      <<next_test_ident1, next_test_ident2>>,
                      <<var_ident_ptr1.val, var_ident1>> >>,
                !.metas = Append(@,
                   [var_1 |-> var_1, path |-> check.args[1], re |-> check.args[2],
                    var_ident |-> var_ident1, halting |-> dfa.end,
                    dfa_start |-> dfa.start, rule |-> Len(b.encoded) + 1])]

\* The inner loop of encode_expressions over the checks of one rule, from
\* check i on
RECURSIVE encode_checks(_, _, _, _)
encode_checks(checks, i, expr_1, b) ==
    IF i > Len(checks) \/ b.panicked THEN b
    ELSE IF ~dfa_new_ok(checks[i].args[2])
    THEN \* DFA::new(&regex).unwrap() on an Err
         [b EXCEPT !.panicked = TRUE]
    ELSE encode_checks(checks, i + 1, expr_1,
            encode_check(checks[i], i, Len(checks), expr_1,
                parse_class_transitions(LibraryDFA(checks[i].args[2]), DFA_FIELD_MOD, b.states),
                b))

\* The outer loop of encode_expressions over the parsed rules, from rule ri on
RECURSIVE encode_rules(_, _, _, _)
encode_rules(parsed_yaml, ri, outcome, b) ==
    IF ri > Len(parsed_yaml) \/ b.panicked THEN b
    ELSE
    LET r == parsed_yaml[ri]
        sealed == seal(ri, outcome)
        ciphertext == from_digits_msf(sealed.buffer)
        vuln_text_ptr1 == draw(EXPR_COMPONENT_MAX, b.states \cup {ciphertext})
        aes_gcm_tag == from_digits_msf(sealed.tag)
        aes_gcm_tag_ptr1 == draw(EXPR_COMPONENT_MAX, vuln_text_ptr1.states \cup {aes_gcm_tag})
        expr_dfa_start_ptr1 == draw(EXPR_COMPONENT_MAX, aes_gcm_tag_ptr1.states)
        next_test_ident_ptr1 == draw(EXPR_COMPONENT_MAX, expr_dfa_start_ptr1.states)
        expr_1 == <<vuln_text_ptr1.val, aes_gcm_tag_ptr1.val, next_test_ident_ptr1.val,
                    expr_dfa_start_ptr1.val>>
        b1 == [b EXCEPT
                 !.states = next_test_ident_ptr1.states,
                 !.ident = next_test_ident_ptr1.val,
                 !.l1 = @ \o << <<vuln_text_ptr1.val, ciphertext>>,
                                <<aes_gcm_tag_ptr1.val, aes_gcm_tag>> >>,
                 !.l2 = Append(@, <<expr_dfa_start_ptr1.val, r.start>>)]
        b2 == encode_checks(r.expr_transitions, 1, expr_1, b1)
    IN  encode_rules(parsed_yaml, ri + 1, outcome,
            [b2 EXCEPT !.encoded = Append(@,
                [plaintext |-> r.vuln_text, buffer |-> sealed.buffer, tag |-> sealed.tag,
                 key |-> aes_key(r.end), expr_1 |-> expr_1, start |-> r.start,
                 end |-> r.end, leaves |-> Len(r.expr_transitions)])])

\* unique_paths[path]: the var_1 of the checks on path, in the order pushed
vars_of_path(metas, path) ==
    LET on == SelectSeq(metas, LAMBDA m : m.path = path)
    IN  Vec([k \in 1..Len(on) |-> on[k].var_1])

\* linked_var_1.set_bit(VAR_COMPONENT_MAX.significant_bits() * 4 - 1, true)
set_has_next(var_1) ==
    [var_1 EXCEPT ![1] = set_bit(@, significant_bits(VAR_COMPONENT_MAX) - 1, TRUE)]

\* The L1 pairs that link the vars of one path, from var i on
RECURSIVE link_vars(_, _, _)
link_vars(checks, i, previous_linked_var) ==
    IF i > Len(checks) THEN <<>>
    ELSE LET linked_var_1 == IF var_has_next(i, Len(checks)) THEN set_has_next(checks[i])
                             ELSE checks[i]
         IN  << <<previous_linked_var, linked_var_1>> >>
             \o link_vars(checks, i + 1, linked_var_1[1])

\* The paths of the document in AllPaths order (the HashMap's order does not
\* show in the result: the pairs of different paths do not interact)
linked_lists(metas) ==
    ConcatAll([k \in 1..Len(AllPaths) |->
        link_vars(vars_of_path(metas, AllPaths[k]), 1, from_digits_msf(AllPaths[k]))])

encode_expressions(parsed_yaml, outcome, b) ==
    LET b1 == encode_rules(parsed_yaml, 1, outcome, b)
    IN  IF b1.panicked THEN b1 ELSE [b1 EXCEPT !.l1 = @ \o linked_lists(b1.metas)]

xs(transitions) == Vec([k \in 1..Len(transitions) |-> transitions[k][1]])

-----------------------------------------------------------------------------
(* The engine.  A layer of the container is kept as the list of points it   *)
(* was interpolated from: at an x of the list the polynomial has the y of   *)
(* the list (generate_poly / evaluate_poly_at_mod), anywhere else it has a  *)
(* field element the compiler never stored (Junk).  A packed integer is     *)
(* kept as the tuple of its four parts (pack_nth_parts_into_size /          *)
(* get_parts_of_one_nth_size), the has-next flag being the top bit of       *)
(* part 0.                                                                  *)

PolyHit(layer, x) == \E k \in 1..Len(layer) : layer[k][1] = x

PolyAt(layer, x) ==
    IF PolyHit(layer, x)
    THEN layer[CHOOSE k \in 1..Len(layer) : layer[k][1] = x][2]
    ELSE Junk

JunkVar == <<Junk, <<Junk, Junk, Junk, Junk>>, Junk, Junk>>

\* evaluate_poly_at_mod(&container.l1, x, &container.p_l1) read as a var_1
VarAt(l1, x) == IF PolyHit(l1, x) THEN PolyAt(l1, x) ELSE JunkVar

\* next_var_ptr1.significant_bits() == container.var_max.significant_bits()
var_flagged(next_var_ptr1) ==
    /\ next_var_ptr1 # Junk
    /\ significant_bits(next_var_ptr1) = significant_bits(VAR_COMPONENT_MAX)

\* The var_1 values popped from var_stack for one event, in the order popped
RECURSIVE var_walk(_, _)
var_walk(l1, var_1) ==
    <<var_1>> \o (IF var_flagged(var_1[1]) THEN var_walk(l1, VarAt(l1, var_1[1])) ELSE <<>>)

\* cantor_pairing_mod on values read from a layer
pair_at(state, val, p) ==
    IF state = Junk \/ val = Junk THEN Junk ELSE cantor_pairing_mod(state, val, p)

\* for c in stripped.chars(), then the step on the state itself
RECURSIVE line_walk(_, _, _)
line_walk(l3, current_state, stripped) ==
    IF stripped = <<>> THEN PolyAt(l3, current_state)
    ELSE line_walk(l3, PolyAt(l3, pair_at(current_state, Head(stripped), DFA_FIELD_MOD)),
                   Tail(stripped))

\* ws.replace(line.trim(), " ")
stripped_of(line) == ws_replace(trim(line))

\* An entry that keeps what earlier ticks put into it
clear_seen_kept(saved, var_ident1) ==
    IF var_ident1 \in DOMAIN saved THEN saved[var_ident1] \cup {0} ELSE {0}

\* "Clear seen vars": the entry of var_ident1 is {0} before the lines are walked
clear_seen(saved, var_ident1) == {0}

\* The body of the while loop for one var_1: [stack, saved]
process_var(c, var_1, file_content, stack, saved) ==
    LET expr_1 == var_1[2]
        ciphertext == PolyAt(c.l1, expr_1[1])
        aes_gcm_tag == PolyAt(c.l1, expr_1[2])
        expr_dfa_start1 == PolyAt(c.l2, expr_1[4])
        next_test_ident1 == PolyAt(c.l2, expr_1[3])
        var_ident1 == PolyAt(c.l2, var_1[3])
        check_dfa_state == PolyAt(c.l3, var_1[4])
        lines == Range(file_content)
        finals == {line_walk(c.l3, check_dfa_state, stripped_of(line)) : line \in lines}
    IN  [stack |-> stack \cup {<<ciphertext, aes_gcm_tag, expr_dfa_start1, next_test_ident1>>},
         saved |-> Map((var_ident1 :> (clear_seen(saved, var_ident1) \cup finals)) @@ saved)]

RECURSIVE process_vars(_, _, _, _, _, _)
process_vars(c, walk, i, file_content, stack, saved) ==
    IF i > Len(walk) THEN [stack |-> stack, saved |-> saved]
    ELSE LET r == process_var(c, walk[i], file_content, stack, saved)
         IN  process_vars(c, walk, i + 1, file_content, r.stack, r.saved)

\* A match that sends every origin into the Etw | Fanotify arm
AnyOrigin == {"Etw", "Fanotify", "Registry"}

\* match metadata.origin { ZekaEventOrigin::Etw | ZekaEventOrigin::Fanotify => ..
FileOrigins == {"Etw", "Fanotify"}

\* for (path, metadata) in event_set, from path i of AllPaths on (the order of
\* the HashMap does not show: different paths write different entries)
RECURSIVE process_events(_, _, _, _, _, _)
process_events(c, event_set, fs, i, stack, saved) ==
    IF i > Len(AllPaths) THEN [stack |-> stack, saved |-> saved]
    ELSE LET path == AllPaths[i]
             r == IF event_set[path] \in FileOrigins
                  THEN process_vars(c, var_walk(c.l1, VarAt(c.l1, from_digits_msf(path))), 1,
                                    fs[path], stack, saved)
                  ELSE [stack |-> stack, saved |-> saved]
         IN  process_events(c, event_set, fs, i + 1, r.stack, r.saved)

\* current_ident.significant_bits() == container.p_l2.significant_bits()
ident_flagged(current_ident) ==
    /\ current_ident # Junk
    /\ significant_bits(current_ident) = significant_bits(EXPR_FIELD_MOD)

\* The idents whose saved sets are pushed on expr_dfa_stack, in order
RECURSIVE ident_walk(_, _)
ident_walk(l2, current_ident) ==
    IF ident_flagged(current_ident)
    THEN <<set_bit(current_ident, significant_bits(current_ident) - 1, FALSE)>>
         \o ident_walk(l2, PolyAt(l2, current_ident))
    ELSE <<current_ident>>

\* saved_vars.get(ident).unwrap_or(&zero_set)
saved_get(saved, ident) == IF ident \in DOMAIN saved THEN saved[ident] ELSE {0}

\* The final states of the tuples of the cartesian product, one per tuple
RECURSIVE product_walk(_, _, _, _)
product_walk(l2, state, expr_dfa_stack, i) ==
    IF i > Len(expr_dfa_stack) THEN <<state>>
    ELSE LET vals == SortSet(expr_dfa_stack[i])
         IN  ConcatAll([k \in 1..Len(vals) |->
                 product_walk(l2, PolyAt(l2, pair_at(state, vals[k], EXPR_FIELD_MOD)),
                              expr_dfa_stack, i + 1)])

\* tag_buffer: the first TagLen bytes, resized to TagLen with zeros at the end
tag_buffer_of(aes_gcm_tag) ==
    LET bytes == IF aes_gcm_tag = Junk THEN <<>> ELSE Reverse(to_bytes(aes_gcm_tag))
    IN  Vec([k \in 1..TagLen |-> IF k <= Len(bytes) THEN bytes[k] ELSE 0])

plain_buffer_of(ciphertext) ==
    IF ciphertext = Junk THEN <<>> ELSE Reverse(to_bytes(ciphertext))

\* decrypt_in_place_detached: succeeds on exactly the (key, ciphertext, tag)
\* triples that encrypt_in_place_detached produced; the plaintexts it yields
decrypt(rules, state, plain_buffer, tag_buffer) ==
    LET hit == SelectSeq(rules, LAMBDA e :
                  /\ state # Junk
                  /\ e.key = aes_key(state)
                  /\ e.buffer = plain_buffer
                  /\ e.tag = tag_buffer)
    IN  Vec([k \in 1..Len(hit) |-> hit[k].plaintext])

\* The pushes of one entry of ident_eval_stack
evaluate_entry(c, rules, entry, saved) ==
    LET idents == ident_walk(c.l2, entry[4])
        expr_dfa_stack == Vec([k \in 1..Len(idents) |-> saved_get(saved, idents[k])])
        ends == product_walk(c.l2, entry[3], expr_dfa_stack, 1)
    IN  ConcatAll([k \in 1..Len(ends) |->
            decrypt(rules, ends[k], plain_buffer_of(entry[1]), tag_buffer_of(entry[2]))])

\* for ... in &ident_eval_stack: the set is borrowed, nothing is taken out
stack_popped(stack) == {}

stack_after(stack) == stack

RECURSIVE SetToSeq(_)
SetToSeq(S) ==
    IF S = {} THEN <<>> ELSE LET e == CHOOSE e \in S : TRUE IN <<e>> \o SetToSeq(S \ {e})

\* scored_vulns after the loop over ident_eval_stack (sorted after each push)
evaluate_expressions(c, rules, stack, saved) ==
    LET entries == SetToSeq(stack)
    IN  sort(ConcatAll([k \in 1..Len(entries) |-> evaluate_entry(c, rules, entries[k], saved)]))

-----------------------------------------------------------------------------
(* The pipeline: zeka_config compiles a document into the container, the    *)
(* engine loads it and evaluates one event map per tick.                    *)

NoConfig == <<>>

NoEncoded == [rules |-> <<>>, vars |-> <<>>]

NoContainer == [l1 |-> <<>>, l2 |-> <<>>, l3 |-> <<>>]

PathSet == Range(AllPaths)

\* A file that is absent reads as "" (read_to_string(..).unwrap_or(""))
LINE_B == <<CH_B>>
LINE_A3 == <<CH_A, SP, SP, CH_A, SP, SP, CH_A>>
LINE_A2 == <<SP, CH_A, TAB, CH_A, SP>>
LINE_AB == <<CH_A, TAB, CH_B>>

FileContents == { <<LINE_B>>, <<LINE_A3>>, <<LINE_A2, LINE_AB, LINE_B>> }

\* The ticks of one run
MaxChecks == 3

NoEvents == [path \in PathSet |-> "none"]

\* Before the first event of a path nothing was read
NeverRead == [path \in PathSet |-> <<>>]

EventSets ==
    { NoEvents,
      [NoEvents EXCEPT ![P_A] = "Fanotify"],
      [NoEvents EXCEPT ![P_A] = "Registry"],
      [NoEvents EXCEPT ![P_B] = "Etw"],
      [NoEvents EXCEPT ![P_A] = "Etw", ![P_B] = "Fanotify"],
      [NoEvents EXCEPT ![P_A] = "Registry", ![P_B] = "Etw"] }

\* report.html before the first tick, and as rendered in a tick: the time of
\* the tick (the ticks of a run are more than a second apart) and the list
NoReport == <<>>

render(timestamp, vulns) == [timestamp |-> timestamp, vulns |-> vulns]

\* The threads of the engine where they are not part of the run
ThreadsIdle ==
    /\ senders = 0
    /\ event_chan = <<>>
    /\ sent = 0
    /\ event_map = <<>>
    /\ set_chan = <<>>
    /\ collector_pc = "off"
    /\ evaluator_pc = "off"
    /\ window = <<>>
    /\ forwarded = <<>>
    /\ processed = <<>>

Init ==
    /\ fpc = "off"
    /\ fin = <<>>
    /\ fout = <<>>
    /\ pc = "parse"
    /\ cfg \in Configs
    /\ errs = 0
    /\ expr_checks = <<>>
    /\ states = {}
    /\ l1_transitions = <<>>
    /\ l2_transitions = <<>>
    /\ l3_transitions = <<>>
    /\ encoded = NoEncoded
    /\ container = NoContainer
    /\ files = [path \in PathSet |-> <<>>]
    /\ saved_vars = <<>>
    /\ ident_eval_stack = {}
    /\ scored_vulns = <<>>
    /\ old_hash = hash_vec(<<>>)
    /\ check_id = 1
    /\ last_events = NoEvents
    /\ last_read = NeverRead
    /\ report = NoReport
    /\ notified = FALSE
    /\ ThreadsIdle

evars == <<files, saved_vars, ident_eval_stack, scored_vulns, old_hash, check_id,
           last_events, last_read, report, notified>>

\* zeka_config main: parse_yaml_doc
ParseYamlDoc ==
    /\ pc = "parse"
    /\ LET b == parse_rules(cfg, 1,
                    [states |-> states, l2 |-> l2_transitions, expr |-> <<>>,
                     errs |-> 0, checks |-> <<>>, panicked |-> FALSE])
       IN  IF b.panicked
           THEN \* the process is gone, nothing was reported
                /\ pc' = "aborted"
                /\ UNCHANGED <<errs, expr_checks, states, l2_transitions>>
           ELSE /\ errs' = b.errs
                /\ expr_checks' = b.checks
                /\ states' = b.states
                /\ l2_transitions' = b.l2
                /\ pc' = IF parse_result(b.errs) = "Err" THEN "rejected" ELSE "encode"
    /\ UNCHANGED <<fvars, tvars, cfg, l1_transitions, l3_transitions, encoded, container, evars>>

\* zeka_config main: encode_expressions
EncodeExpressions ==
    /\ pc = "encode"
    /\ \E outcome \in SealOutcomes :
         LET b == encode_expressions(expr_checks, outcome,
                      [states |-> states, l1 |-> l1_transitions, l2 |-> l2_transitions,
                       l3 |-> l3_transitions, metas |-> <<>>, encoded |-> <<>>,
                       ident |-> 0, panicked |-> FALSE])
         IN  /\ states' = b.states
             /\ l1_transitions' = b.l1
             /\ l2_transitions' = b.l2
             /\ l3_transitions' = b.l3
             /\ encoded' = [rules |-> b.encoded, vars |-> b.metas]
             /\ pc' = IF b.panicked THEN "panicked" ELSE "interp"
    /\ UNCHANGED <<fvars, tvars, cfg, errs, expr_checks, container, evars>>

\* generate_poly panics ("doesn't have an inverse") when two x are equal
interpolates(transitions) == Distinct(xs(transitions))

\* zeka_config main: the three generate_poly calls and the container written,
\* then read by the engine
GeneratePolys ==
    /\ pc = "interp"
    /\ IF interpolates(l1_transitions) /\ interpolates(l2_transitions)
          /\ interpolates(l3_transitions)
       THEN /\ container' = [l1 |-> l1_transitions, l2 |-> l2_transitions,
                             l3 |-> l3_transitions]
            /\ pc' = "loaded"
       ELSE /\ container' = container
            /\ pc' = "panicked"
    /\ UNCHANGED <<fvars, tvars, cfg, errs, expr_checks, states, l1_transitions, l2_transitions,
                   l3_transitions, encoded, evars>>

\* A process of the host writes a file (while a tick of the run is still to come)
WriteFile ==
    /\ pc \in {"loaded", "scored"}
    /\ check_id <= MaxChecks
    /\ \E path \in PathSet : \E content \in FileContents :
         files' = [files EXCEPT ![path] = content]
    /\ UNCHANGED <<fvars, tvars, pc, cfg, errs, expr_checks, states, l1_transitions,
                   l2_transitions, l3_transitions, encoded, container, saved_vars,
                   ident_eval_stack, scored_vulns, old_hash, check_id, last_events, last_read,
                   report, notified>>

\* A process of the host deletes a file: it can no longer be read
DeleteFile ==
    /\ pc \in {"loaded", "scored"}
    /\ check_id <= MaxChecks
    /\ \E path \in PathSet :
         /\ files[path] # <<>>
         /\ files' = [files EXCEPT ![path] = <<>>]
    /\ UNCHANGED <<fvars, tvars, pc, cfg, errs, expr_checks, states, l1_transitions,
                   l2_transitions, l3_transitions, encoded, container, saved_vars,
                   ident_eval_stack, scored_vulns, old_hash, check_id, last_events, last_read,
                   report, notified>>

\* let file_content = read_to_string(&path).unwrap_or("".to_string()), kept
\* per path for the events of the Etw | Fanotify arm
read_after(read, event_set, fs) ==
    [path \in PathSet |-> IF event_set[path] \in FileOrigins THEN fs[path] ELSE read[path]]

\* One iteration of the evaluator loop: an event map is received, its events
\* processed, the expressions evaluated, the hash compared
Tick ==
    /\ pc \in {"loaded", "scored"}
    /\ check_id <= MaxChecks
    /\ check_id' = check_id + 1
    /\ \E event_set \in EventSets :
         \* r and scored are bound to values, each computed once
         \E r \in {process_events(container, event_set, files, 1, ident_eval_stack,
                                  saved_vars)} :
         \E scored \in {evaluate_expressions(container, encoded.rules, r.stack, r.saved)} :
         \E new_hash \in {hash_vec(scored)} :
             /\ saved_vars' = r.saved
             /\ ident_eval_stack' = stack_after(r.stack)
             /\ scored_vulns' = scored
             /\ report' = render(check_id, scored)
             /\ notified' = (new_hash # old_hash)
             /\ old_hash' = IF new_hash # old_hash THEN new_hash ELSE old_hash
             /\ last_events' = event_set
             /\ last_read' = read_after(last_read, event_set, files)
    /\ pc' = "scored"
    /\ UNCHANGED <<fvars, tvars, cfg, errs, expr_checks, states, l1_transitions,
                   l2_transitions, l3_transitions, encoded, container, files>>

Next ==
    ParseYamlDoc \/ EncodeExpressions \/ GeneratePolys \/ WriteFile \/ DeleteFile \/ Tick

Spec == Init /\ [][Next]_vars

-----------------------------------------------------------------------------
(* Function-level runs: the inputs are drawn in the initial state, the      *)
(* pipeline variables stay as they are before the compiler starts.          *)

PipelineIdle ==
    /\ pc = "idle"
    /\ cfg = NoConfig
    /\ errs = 0
    /\ expr_checks = <<>>
    /\ states = {}
    /\ l1_transitions = <<>>
    /\ l2_transitions = <<>>
    /\ l3_transitions = <<>>
    /\ encoded = NoEncoded
    /\ container = NoContainer
    /\ files = <<>>
    /\ saved_vars = <<>>
    /\ ident_eval_stack = {}
    /\ scored_vulns = <<>>
    /\ old_hash = <<>>
    /\ check_id = 1
    /\ last_events = {}
    /\ last_read = {}
    /\ report = NoReport
    /\ notified = FALSE

\* ---- lagrange: generate_poly, then evaluate_poly_at_mod at every x_i ----

MaxPrime == 5
MaxPoints == 3

Primes == {p \in 2..MaxPrime : IsPrime(p)}

InitLagrange ==
    /\ fpc = "in"
    /\ \E p \in Primes : \E k \in 1..MaxPoints :
         \E x_s \in {x \in [1..k -> 0..(p - 1)] : Distinct(x)} :
            \E y_s \in [1..k -> 0..(p - 1)] :
               fin = [p |-> p, x_s |-> x_s, y_s |-> y_s]
    /\ fout = <<>>
    /\ PipelineIdle
    /\ ThreadsIdle

GeneratePoly ==
    /\ fpc = "in"
    /\ fpc' = "mid"
    /\ fout' = [poly |-> generate_poly(fin.x_s, fin.y_s, fin.p)]
    /\ UNCHANGED <<fin, mvars, tvars>>

EvaluatePoly ==
    /\ fpc = "mid"
    /\ fout.poly # Panic
    /\ fpc' = "out"
    /\ fout' = [poly |-> fout.poly,
                at   |-> [i \in 1..Len(fin.x_s) |->
                             evaluate_poly_at_mod(fout.poly, fin.x_s[i], fin.p)]]
    /\ UNCHANGED <<fin, mvars, tvars>>

NextLagrange == GeneratePoly \/ EvaluatePoly

SpecLagrange == InitLagrange /\ [][NextLagrange]_vars

\* ---- numbers: pack_nth_parts_into_size, then get_parts_of_one_nth_size ----

MaxModulus == 255
MaxPart == 4

InitPack ==
    /\ fpc = "in"
    /\ \E p \in 1..MaxModulus :
         \E parts \in [1..4 -> 0..MaxPart] :
            /\ \A i \in 1..4 : parts[i] <= 2 ^ get_eligible_bits_of_nth_size(4, p)
            /\ fin = [p |-> p, parts |-> parts]
    /\ fout = <<>>
    /\ PipelineIdle
    /\ ThreadsIdle

Pack ==
    /\ fpc = "in"
    /\ fpc' = "mid"
    /\ fout' = [packed |-> pack_nth_parts_into_size(fin.parts, 4, fin.p)]
    /\ UNCHANGED <<fin, mvars, tvars>>

Split ==
    /\ fpc = "mid"
    /\ fout.packed # Unwind
    /\ fpc' = "out"
    /\ fout' = [packed |-> fout.packed,
                parts  |-> get_parts_of_one_nth_size(4, fout.packed, fin.p)]
    /\ UNCHANGED <<fin, mvars, tvars>>

NextPack == Pack \/ Split

SpecPack == InitPack /\ [][NextPack]_vars

\* ---- dfa: parse_class_transitions, then walk_transitions over a haystack ----

MaxHaystack == 5

Alphabet == {TAB, SP, CH_A, CH_B}


InitDfa ==
    /\ fpc = "in"
    /\ \E re \in Regexes : \E haystack \in SeqsOf(Alphabet, 0, MaxHaystack) :
          fin = [re |-> re, haystack |-> haystack]
    /\ fout = <<>>
    /\ PipelineIdle
    /\ ThreadsIdle

ExtractDfa ==
    /\ fpc = "in"
    /\ fpc' = "mid"
    /\ fout' = [dfa |-> parse_class_transitions(LibraryDFA(fin.re), DFA_FIELD_MOD, {})]
    /\ UNCHANGED <<fin, mvars, tvars>>

WalkDfa ==
    /\ fpc = "mid"
    /\ ~fout.dfa.panicked
    /\ fpc' = "out"
    /\ fout' = [dfa      |-> fout.dfa,
                accepted |-> walk_transitions(fout.dfa.transitions, fout.dfa.start,
                                              fout.dfa.end, fin.haystack)]
    /\ UNCHANGED <<fin, mvars, tvars>>

NextDfa == ExtractDfa \/ WalkDfa

SpecDfa == InitDfa /\ [][NextDfa]_vars

-----------------------------------------------------------------------------
(* Claims about the function-level runs                                     *)

\* C9: for a prime p, k >= 1 pairwise distinct x_i and arbitrary y_i in [0,p),
\* generate_poly returns exactly k coefficients in [0,p), and
\* evaluate_poly_at_mod on that polynomial returns y_i at every x_i.
C9_Interpolates ==
    /\ fpc = "mid" =>
          /\ fout.poly # Panic
          /\ Len(fout.poly) = Len(fin.x_s)
          /\ \A c \in 1..Len(fout.poly) : fout.poly[c] \in 0..(fin.p - 1)
    /\ fpc = "out" => fout.at = fin.y_s

C9_Witness ==
    /\ fpc = "out"
    /\ fin.p = 5
    /\ fin.x_s = <<4, 0, 2>>
    /\ fin.y_s = <<3, 3, 1>>
    /\ fout.at = <<3, 3, 1>>
    /\ \E c \in 2..3 : fout.poly[c] # 0

\* C10: for a modulus p with eligible_bits(4,p) >= 1 and parts a,b,c,d each
\* below 2^eligible_bits(4,p), splitting the packed value returns [a,b,c,d] in
\* the same order.
C10_RoundTrip ==
    (/\ fpc = "out"
     /\ get_eligible_bits_of_nth_size(4, fin.p) >= 1
     /\ \A i \in 1..4 : fin.parts[i] < 2 ^ get_eligible_bits_of_nth_size(4, fin.p))
    => fout.parts = fin.parts

C10_Witness ==
    /\ fpc = "out"
    /\ get_eligible_bits_of_nth_size(4, fin.p) = 2
    /\ fin.parts = <<1, 2, 3, 0>>
    /\ fout.parts = <<1, 2, 3, 0>>

\* The haystack without the bytes that have no transition from the state the
\* automaton is in when it reads them
RECURSIVE Kept(_, _, _)
Kept(dfa, state, s) ==
    IF s = <<>> THEN <<>>
    ELSE LET n == LibNext(dfa, state, Head(s))
         IN  IF n = DEAD THEN Kept(dfa, state, Tail(s))
             ELSE <<Head(s)>> \o Kept(dfa, n, Tail(s))

\* C8 as stated: the walk over the extracted list ends in the extracted
\* accepting state if and only if r fully matches s.
C8_WalkIffFullMatch ==
    fpc = "out" => (fout.accepted <=> is_full_match(fin.re, fin.haystack))

\* C8 amended: the walk ends in the accepting state if and only if r fully
\* matches what is left of s when every byte that has no transition from the
\* current state is dropped; so it accepts every s that r fully matches.
C8_WalkIffKeptMatch ==
    fpc = "out" =>
       /\ fout.accepted <=>
             is_full_match(fin.re, Kept(LibraryDFA(fin.re), START_STATE, fin.haystack))
       /\ is_full_match(fin.re, fin.haystack) => fout.accepted

C8_Witness ==
    /\ fpc = "out"
    /\ fin.re = "CLS"
    /\ fin.haystack = <<CH_B, TAB, CH_B>>
    /\ fout.accepted
    /\ Len(fout.dfa.transitions) = 6

\* ---- C29 ----

\* The state of the walk after the first k bytes of the haystack
StateAfter(k) == walk_bytes(fout.dfa.transitions, fout.dfa.start, SubSeq(fin.haystack, 1, k))

HasTransition(state, input) ==
    \E t \in Range(fout.dfa.transitions) : t[1] = state /\ t[3] = input

\* The haystack is x m y: the pattern fully matches m, no byte of x has a
\* transition from the start state, no byte of y has one from the state the
\* automaton is in after m
Embeds(i, j) ==
    LET dfa == LibraryDFA(fin.re)
        m   == SubSeq(fin.haystack, i, j)
    IN  /\ is_full_match(fin.re, m)
        /\ \A k \in 1..(i - 1) : LibNext(dfa, START_STATE, fin.haystack[k]) = DEAD
        /\ \A k \in (j + 1)..Len(fin.haystack) :
               LibNext(dfa, LibRun(dfa, START_STATE, m), fin.haystack[k]) = DEAD

\* C29: walk_transitions keeps its state on a byte for which the state has no
\* byte transition and follows the transition otherwise; the Eoi transition is
\* applied once, after the last byte; so a haystack that embeds a matching
\* string between bytes without transitions is accepted.
C29_WalkSkipsBytesWithoutTransition ==
    fpc = "out" =>
        /\ \A k \in 1..Len(fin.haystack) :
               IF HasTransition(StateAfter(k - 1), fin.haystack[k])
               THEN \E t \in Range(fout.dfa.transitions) :
                       /\ t[1] = StateAfter(k - 1)
                       /\ t[3] = fin.haystack[k]
                       /\ t[2] = StateAfter(k)
               ELSE StateAfter(k) = StateAfter(k - 1)
        /\ fout.accepted <=>
               LET last == StateAfter(Len(fin.haystack))
               IN  IF HasTransition(last, EOI)
                   THEN \E t \in Range(fout.dfa.transitions) :
                           t[1] = last /\ t[3] = EOI /\ t[2] = fout.dfa.end
                   ELSE last = fout.dfa.end
        /\ (\E i \in 1..(Len(fin.haystack) + 1), j \in 0..Len(fin.haystack) : Embeds(i, j))
               => fout.accepted

\* ^b$ on "\t b \t": bytes without a transition before and after the match
C29_Witness ==
    /\ fpc = "out"
    /\ fin.re = "B"
    /\ fin.haystack = <<TAB, SP, CH_B, SP, TAB>>
    /\ Embeds(3, 3)
    /\ ~is_full_match(fin.re, fin.haystack)
    /\ fout.accepted

-----------------------------------------------------------------------------
(* What a document means: the leaves of a pass clause in document order and *)
(* the truth of the clause for a set of matched leaves.                     *)

RECURSIVE leaf_count(_)
RECURSIVE leaves_in(_)
leaf_count(node) == IF node.k \in {"and", "or"} THEN leaves_in(node.ch) ELSE 1

leaves_in(nodes) ==
    IF nodes = <<>> THEN 0 ELSE leaf_count(Head(nodes)) + leaves_in(Tail(nodes))

\* M holds the numbers of the matched leaves; the leaves of node are numbered
\* from first + 1 on
RECURSIVE holds(_, _, _)
RECURSIVE all_hold(_, _, _)
RECURSIVE some_holds(_, _, _)
holds(node, first, M) ==
    IF node.k = "and" THEN all_hold(node.ch, first, M)
    ELSE IF node.k = "or" THEN some_holds(node.ch, first, M)
    ELSE (first + 1) \in M

all_hold(nodes, first, M) ==
    \/ nodes = <<>>
    \/ /\ holds(Head(nodes), first, M)
       /\ all_hold(Tail(nodes), first + leaf_count(Head(nodes)), M)

some_holds(nodes, first, M) ==
    /\ nodes # <<>>
    /\ \/ holds(Head(nodes), first, M)
       \/ some_holds(Tail(nodes), first + leaf_count(Head(nodes)), M)

\* The compile records of the leaves of rule ri / of the leaves on path
RuleVars(ri) == SelectSeq(encoded.vars, LAMBDA m : m.rule = ri)

PathVars(path) == SelectSeq(encoded.vars, LAMBDA m : m.path = path)

Compiled == pc \in {"loaded", "scored"}

\* ---- C1 ----

SingleLeaf == Len(cfg) = 1 /\ Len(cfg[1].pass) = 1 /\ cfg[1].pass[1].k = "regex"

LeafPath == cfg[1].pass[1].args[1]

LeafRe == cfg[1].pass[1].args[2]

\* some trimmed, whitespace-collapsed line of the content fully matches re
SomeLineMatches(re, content) ==
    \E k \in 1..Len(content) : is_full_match(re, ws_replace_all(trim(content[k])))

\* the scored plaintexts without the leading category byte
Shown(scored) == [k \in 1..Len(scored) |-> Tail(scored[k])]

\* C1: for a compiled configuration with one rule whose pass clause is a
\* single regex leaf on path P, a tick whose event map holds a file event for
\* P leaves exactly the rule's plaintext in the scored set when some trimmed,
\* whitespace-collapsed line of P's content fully matches the regex, and
\* leaves the scored set empty when no line matches.
C1_SingleLeafScoresIffLineMatches ==
    [][(check_id' # check_id /\ SingleLeaf /\ last_events'[LeafPath] \in FileOrigins)
          => IF SomeLineMatches(LeafRe, files[LeafPath])
             THEN Shown(scored_vulns') = <<cfg[1].text>>
             ELSE scored_vulns' = <<>>]_vars

\* ---- C2 ----

\* leaf i's binding set: {0}, plus its halting state when it matched
Bindings(ri, M) ==
    Vec([i \in 1..Len(RuleVars(ri)) |->
            {0} \cup (IF i \in M THEN {RuleVars(ri)[i].halting} ELSE {})])

\* some tuple of the product, applied in leaf order from expr_start, ends in
\* expr_end
ReachesEnd(ri, M) ==
    LET ends == product_walk(container.l2, encoded.rules[ri].start, Bindings(ri, M), 1)
    IN  \E k \in 1..Len(ends) : ends[k] = encoded.rules[ri].end

ExprDfaIffBoolean(ri) ==
    \A M \in SUBSET (1..Len(RuleVars(ri))) :
        ReachesEnd(ri, M) <=> all_hold(cfg[ri].pass, 0, M)

\* C2: for every pass-expression tree the compiler accepts, and every set of
\* matched leaves, some tuple of the binding sets walks L2 from expr_start to
\* expr_end if and only if the boolean expression is true.
C2_ExprDfaIffBoolean ==
    (pc \in {"loaded", "scored", "panicked"} /\ errs = 0)
       => \A ri \in 1..Len(encoded.rules) : ExprDfaIffBoolean(ri)

\* The same for the trees whose three layers interpolate
C2_InterpolatedTreesIffBoolean ==
    Compiled => \A ri \in 1..Len(encoded.rules) : ExprDfaIffBoolean(ri)

\* ---- C3 ----

\* C3: after compiling a configuration that passes validation, no two pairs
\* of the L1 list have the same x, and likewise for the L2 and the L3 list.
C3_UniqueXPerLayer ==
    (pc \in {"interp", "loaded", "scored", "panicked"} /\ errs = 0)
       => /\ Distinct(xs(l1_transitions))
          /\ Distinct(xs(l2_transitions))
          /\ Distinct(xs(l3_transitions))

\* ---- C4 ----

\* C4: after every tick the scored set holds each plaintext at most once.
C4_ScoredAtMostOnce == pc = "scored" => Distinct(scored_vulns)

\* ---- C5 ----

\* C5: a tick with an empty event map computes the scored set, and hence the
\* hash, of the tick before it.
C5_EmptyTickIdempotent ==
    [][(check_id' # check_id /\ last_events' = NoEvents)
          => /\ scored_vulns' = scored_vulns
             /\ hash_vec(scored_vulns') = hash_vec(scored_vulns)
             /\ old_hash' = old_hash]_vars

C5_Witness ==
    /\ pc = "scored"
    /\ check_id = 4
    /\ last_events = NoEvents
    /\ Len(scored_vulns) = 2
    /\ old_hash = hash_vec(scored_vulns)

\* ---- C6 ----

RuntimeVarWalk(path) == var_walk(container.l1, VarAt(container.l1, from_digits_msf(path)))

\* C6: for every path referenced by k >= 1 leaves, the runtime walk from
\* from_bytes(path) visits exactly the k records compiled for the path, each
\* once and in compile order, and stops; next_var_ptr carries the has-next
\* bit on the first k - 1 records and not on the last.
C6_ChainVisitsCompiledVars ==
    Compiled =>
       \A path \in PathSet :
          LET compiled == PathVars(path)
              walk == RuntimeVarWalk(path)
          IN  Len(compiled) >= 1 =>
                 /\ Len(walk) = Len(compiled)
                 /\ Distinct(walk)
                 /\ \A i \in 1..Len(walk) :
                       /\ var_flagged(walk[i][1]) <=> i < Len(walk)
                       /\ walk[i] = IF i < Len(walk) THEN set_has_next(compiled[i].var_1)
                                    ELSE compiled[i].var_1

C6_Witness ==
    /\ pc = "loaded"
    /\ Len(PathVars(P_A)) = 3
    /\ Len(RuntimeVarWalk(P_A)) = 3
    /\ var_flagged(RuntimeVarWalk(P_A)[2][1])
    /\ ~var_flagged(RuntimeVarWalk(P_A)[3][1])

\* ---- C7 ----

\* The values of the ident chain as they are read from L2
RECURSIVE ident_chain(_, _)
ident_chain(l2, current_ident) ==
    <<current_ident>> \o (IF ident_flagged(current_ident)
                          THEN ident_chain(l2, PolyAt(l2, current_ident)) ELSE <<>>)

FirstIdent(ri) == PolyAt(container.l2, encoded.rules[ri].expr_1[3])

\* C7: for every expression with n >= 1 leaves, unrolling the ident chain from
\* eval(L2, next_test_ident_ptr) yields the n leaves' var_idents in leaf
\* order and stops; the first n - 1 chain values carry bit bits(P_L2) - 1, the
\* n-th does not, and a flagged value with the bit cleared is the var_ident.
C7_IdentChainYieldsLeafIdents ==
    Compiled =>
       \A ri \in 1..Len(encoded.rules) :
          LET leaves == RuleVars(ri)
              chain == ident_chain(container.l2, FirstIdent(ri))
              unrolled == ident_walk(container.l2, FirstIdent(ri))
          IN  /\ Len(leaves) >= 1
              /\ Len(chain) = Len(leaves)
              /\ Len(unrolled) = Len(leaves)
              /\ \A i \in 1..Len(chain) :
                    /\ unrolled[i] = leaves[i].var_ident
                    /\ chain[i] # Junk
                    /\ get_bit(chain[i], significant_bits(EXPR_FIELD_MOD) - 1)
                          = IF i < Len(chain) THEN 1 ELSE 0
                    /\ set_bit(chain[i], significant_bits(EXPR_FIELD_MOD) - 1, FALSE)
                          = leaves[i].var_ident

C7_Witness ==
    /\ pc = "loaded"
    /\ Len(RuleVars(1)) = 3
    /\ Len(ident_chain(container.l2, FirstIdent(1))) = 3
    /\ ident_flagged(ident_chain(container.l2, FirstIdent(1))[2])
    /\ ~ident_flagged(ident_chain(container.l2, FirstIdent(1))[3])


-----------------------------------------------------------------------------
(* Claims about the part width and the pairing function                     *)

\* C11: for a modulus p with eligible_bits(4,p) >= 1, the concatenation of 4
\* parts each below 2^eligible_bits(4,p) is strictly less than p.
C11_ConcatBelowModulus ==
    (/\ fpc \in {"mid", "out"}
     /\ get_eligible_bits_of_nth_size(4, fin.p) >= 1
     /\ \A i \in 1..4 : fin.parts[i] < 2 ^ get_eligible_bits_of_nth_size(4, fin.p))
    => fout.packed < fin.p

\* ---- numbers: cantor_pairing_mod of two pairs ----

MaxCantorPrime == 23
MaxCantorArg == 4

InitCantor ==
    /\ fpc = "in"
    /\ \E p \in {q \in 3..MaxCantorPrime : IsPrime(q)} :
         \E a, b, c, d \in 0..MaxCantorArg :
            fin = [p |-> p, ab |-> <<a, b>>, cd |-> <<c, d>>]
    /\ fout = <<>>
    /\ PipelineIdle
    /\ ThreadsIdle

CantorPair ==
    /\ fpc = "in"
    /\ fpc' = "out"
    /\ fout' = [ab |-> cantor_pairing_mod(fin.ab[1], fin.ab[2], fin.p),
                cd |-> cantor_pairing_mod(fin.cd[1], fin.cd[2], fin.p)]
    /\ UNCHANGED <<fin, mvars, tvars>>

NextCantor == CantorPair

SpecCantor == InitCantor /\ [][NextCantor]_vars

BelowRoot(ab, p) == ab[1] * ab[1] < p /\ ab[2] * ab[2] < p

\* (a+b)(a+b+1)/2 + b, the pairing over the integers
cantor_int(ab) == ((ab[1] + ab[2]) * (ab[1] + ab[2] + 1)) \div 2 + ab[2]

\* C12 as stated: for an odd prime p, two different pairs (a,b) with a*a < p
\* and b*b < p never have the same cantor_pairing_mod value.
C12_InjectiveBelowRoot ==
    (/\ fpc = "out"
     /\ BelowRoot(fin.ab, fin.p)
     /\ BelowRoot(fin.cd, fin.p)
     /\ fin.ab # fin.cd)
    => fout.ab # fout.cd

\* C12 amended: for an odd prime p, cantor_pairing_mod(a,b,p) is the integer
\* pairing (a+b)(a+b+1)/2 + b whenever that integer is below p, and two
\* different pairs whose integer pairing is below p never have the same value.
C12_InjectiveBelowModulus ==
    fpc = "out" =>
       /\ cantor_int(fin.ab) < fin.p => fout.ab = cantor_int(fin.ab)
       /\ (/\ cantor_int(fin.ab) < fin.p
           /\ cantor_int(fin.cd) < fin.p
           /\ fin.ab # fin.cd)
          => fout.ab # fout.cd

C12_Witness ==
    /\ fpc = "out"
    /\ fin.p = 23
    /\ fin.ab = <<1, 4>>
    /\ fin.cd = <<4, 1>>
    /\ fout.ab = 19
    /\ fout.cd = 16


-----------------------------------------------------------------------------
(* Claims about the compiler                                                *)

\* ---- C13 ----

\* The points of the expression automaton of rule ri other than its end
ExprPoints(ri) ==
    {expr_checks[ri].start}
       \cup {expr_checks[ri].expr_transitions[k].from :
                 k \in 1..Len(expr_checks[ri].expr_transitions)}
       \cup ({expr_checks[ri].expr_transitions[k].to :
                 k \in 1..Len(expr_checks[ri].expr_transitions)} \ {expr_checks[ri].end})

VarIdents == {encoded.vars[k].var_ident : k \in 1..Len(encoded.vars)}

\* The pointers drawn by encode_expressions
Pointers ==
    UNION {Range(encoded.rules[ri].expr_1) : ri \in 1..Len(encoded.rules)}
       \cup UNION {{encoded.vars[k].var_1[1], encoded.vars[k].var_1[3],
                    encoded.vars[k].var_1[4]} : k \in 1..Len(encoded.vars)}

Encoded == pc \in {"interp", "loaded", "scored"}

\* C13: in a compiled configuration no two vulnerabilities have the same
\* expr_end, so no two have the same AES key; and expr_end differs from every
\* other sampled point: start states, interior states, the points of the other
\* rules, var_idents and pointers.
C13_ExprEndUnique ==
    Encoded =>
       \A ri \in 1..Len(encoded.rules) :
          /\ encoded.rules[ri].end = expr_checks[ri].end
          /\ \A rj \in 1..Len(encoded.rules) :
                rj # ri => /\ encoded.rules[ri].end # encoded.rules[rj].end
                           /\ encoded.rules[ri].key # encoded.rules[rj].key
                           /\ encoded.rules[ri].end \notin ExprPoints(rj)
          /\ encoded.rules[ri].end \notin ExprPoints(ri)
          /\ encoded.rules[ri].end \notin VarIdents
          /\ encoded.rules[ri].end \notin Pointers
          /\ encoded.rules[ri].end \in states

C13_Witness ==
    /\ pc = "loaded"
    /\ Len(encoded.rules) = 2
    /\ encoded.rules[1].end # encoded.rules[2].end
    /\ Cardinality(ExprPoints(2)) = 2
    /\ Cardinality(VarIdents) = 3

\* ---- C19 ----

\* C19: when at least one diagnostic was recorded while the configuration was
\* parsed and validated, no artifact is written; an artifact exists only when
\* the diagnostics vector is empty.
C19_NoArtifactWithDiagnostics ==
    /\ errs > 0 => (container = NoContainer /\ pc = "rejected")
    /\ container # NoContainer => errs = 0

C19_Witness ==
    /\ pc = "rejected"
    /\ errs = 2
    /\ container = NoContainer

\* ---- C30 ----

\* The paths of the leaves that a pass clause requires by AND alone (no or
\* above them)
RECURSIVE required_paths(_)
required_paths(nodes) ==
    IF nodes = <<>> THEN {}
    ELSE LET node == Head(nodes)
             here == IF node.k = "and" THEN required_paths(node.ch)
                     ELSE IF node.k = "regex" /\ Len(node.args) >= 1 THEN {node.args[1]}
                     ELSE {}
         IN  here \cup required_paths(Tail(nodes))

\* C30: a tick with a file event for a path P whose file cannot be read ends
\* like every other tick, binds every var_ident compiled for P to exactly {0},
\* and leaves no rule in the scored set that requires a leaf on P by AND.
C30_UnreadableFileBindsZero ==
    [][check_id' # check_id =>
          \A P \in PathSet :
             (last_events'[P] \in FileOrigins /\ files[P] = <<>>) =>
                /\ pc' = "scored"
                /\ \A k \in 1..Len(PathVars(P)) :
                      /\ PathVars(P)[k].var_ident \in DOMAIN saved_vars'
                      /\ saved_vars'[PathVars(P)[k].var_ident] = {0}
                /\ \A ri \in 1..Len(cfg) :
                      P \in required_paths(cfg[ri].pass) =>
                         \A k \in 1..Len(scored_vulns') : Shown(scored_vulns')[k] # cfg[ri].text]_vars

\* The tick after /a was deleted: the rule that was scored in the tick before
\* is gone from the scored set, which changed
C30_Witness ==
    /\ pc = "scored"
    /\ check_id > 2
    /\ P_A \in required_paths(cfg[1].pass)
    /\ last_events[P_A] \in FileOrigins
    /\ files[P_A] = <<>>
    /\ Len(PathVars(P_A)) >= 1
    /\ \A k \in 1..Len(PathVars(P_A)) : saved_vars[PathVars(P_A)[k].var_ident] = {0}
    /\ scored_vulns = <<>>
    /\ notified

\* ---- C32 ----

RECURSIVE has_bad_regex(_)
has_bad_regex(nodes) ==
    /\ nodes # <<>>
    /\ \/ has_bad_regex(Tail(nodes))
       \/ IF Head(nodes).k \in {"and", "or"} THEN has_bad_regex(Head(nodes).ch)
          ELSE Len(Head(nodes).args) = 2 /\ Head(nodes).args[2] = BAD_REGEX

HasBadRegex == \E i \in 1..Len(cfg) : has_bad_regex(cfg[i].pass)

\* C32: a leaf whose regex does not compile is a validation error like the
\* others: once the document is parsed a diagnostic is recorded and the
\* configuration is rejected, and the compiler never aborts on it.
C32_BadRegexIsDiagnosed ==
    (HasBadRegex /\ pc # "parse") => (errs > 0 /\ pc = "rejected")

\* What the code does: the document passes validation without a diagnostic and
\* the compiler aborts in encode_expressions; nothing is written
C32_BadRegexAborts ==
    HasBadRegex => /\ errs = 0
                   /\ pc \in {"parse", "encode", "panicked"}
                   /\ container = NoContainer

\* ---- C33 ----

\* The var_ident values the L1 record walks of the tick's Etw and Fanotify
\* paths come to
ReachedIdents(event_set) ==
    UNION { { PolyAt(container.l2, v[3]) :
                v \in Range(var_walk(container.l1,
                                     VarAt(container.l1, from_digits_msf(P)))) } :
            P \in {Q \in PathSet : event_set[Q] \in {"Etw", "Fanotify"}} }

\* C33: a tick changes saved_vars and ident_eval_stack only through its Etw
\* and Fanotify events: a tick whose events are all of origin Registry (or
\* that has no event) leaves both as they were, and the binding set of a
\* var_ident that no Etw/Fanotify path of the tick's event map reaches is
\* after the tick what it was before
C33_TickFrame ==
    [][check_id' # check_id =>
          /\ (\A P \in PathSet : last_events'[P] \notin {"Etw", "Fanotify"})
                => /\ saved_vars' = saved_vars
                   /\ ident_eval_stack' = ident_eval_stack
          /\ \A id \in (DOMAIN saved_vars \cup DOMAIN saved_vars')
                         \ ReachedIdents(last_events') :
                /\ id \in DOMAIN saved_vars
                /\ id \in DOMAIN saved_vars'
                /\ saved_vars'[id] = saved_vars[id]]_vars

\* After a tick with a Registry event for /a and an Etw event for /b: the
\* var_ident of a leaf on /a is still bound to the accepting state an earlier
\* tick found, the var_ident of the leaf on /b was bound in this tick
C33_Witness ==
    /\ pc = "scored"
    /\ last_events[P_A] = "Registry"
    /\ last_events[P_B] = "Etw"
    /\ Len(PathVars(P_A)) >= 1
    /\ Len(PathVars(P_B)) >= 1
    /\ PathVars(P_A)[1].var_ident \in DOMAIN saved_vars
    /\ saved_vars[PathVars(P_A)[1].var_ident] # {0}
    /\ PathVars(P_B)[1].var_ident \in DOMAIN saved_vars
    /\ ident_eval_stack # {}

\* ---- C34 ----

\* The two leaves of a rule whose pass clause is the AND (implicit or
\* explicit) of two regex leaves
AndLeaves(ri) ==
    LET pass == cfg[ri].pass
    IN  IF Len(pass) = 1 /\ pass[1].k = "and" THEN pass[1].ch ELSE pass

\* Rule ri is the AND of one leaf on a path and one leaf on another path
TwoPathAnd(ri) ==
    /\ Len(AndLeaves(ri)) = 2
    /\ \A k \in 1..2 : AndLeaves(ri)[k].k = "regex" /\ Len(AndLeaves(ri)[k].args) = 2
    /\ AndLeaves(ri)[1].args[1] # AndLeaves(ri)[2].args[1]

\* The latest file event of each of the two paths found a matching line
BothMatched(ri) ==
    \A k \in 1..2 :
        SomeLineMatches(AndLeaves(ri)[k].args[2], last_read[AndLeaves(ri)[k].args[1]])

\* C34: when a rule is the AND of a leaf on path P and a leaf on another
\* path Q, and the latest event for P and the latest event for Q each found
\* a matching line (in the same tick or in two different ticks, no later
\* event for either path in between), the rule is in the scored set from the
\* later of the two ticks on.
C34_CrossTickAndIsScored ==
    pc = "scored" =>
        \A ri \in 1..Len(cfg) :
            (TwoPathAnd(ri) /\ BothMatched(ri))
               => \E k \in 1..Len(scored_vulns) : Shown(scored_vulns)[k] = cfg[ri].text

\* some line of the content, normalised as the evaluator does, fully matches
SomeLineMatchesAsRead(re, content) ==
    \E k \in 1..Len(content) : is_full_match(re, stripped_of(content[k]))

\* The same for the lines as the evaluator normalises them and for rules
\* whose ciphertext and tag do not start with a zero byte
C34_ScoredWhenReadableAndDecryptable ==
    pc = "scored" =>
        \A ri \in 1..Len(cfg) :
            (/\ TwoPathAnd(ri)
             /\ \A k \in 1..2 :
                   SomeLineMatchesAsRead(AndLeaves(ri)[k].args[2],
                                         last_read[AndLeaves(ri)[k].args[1]])
             /\ encoded.rules[ri].buffer[1] # 0
             /\ encoded.rules[ri].tag[1] # 0)
               => \E k \in 1..Len(scored_vulns) : Shown(scored_vulns)[k] = cfg[ri].text

\* The two events arrived in different ticks: the last tick had an event for
\* /b only, the matching content of /a was read in an earlier tick
C34_CrossTickCase ==
    /\ pc = "scored"
    /\ \E ri \in 1..Len(cfg) : TwoPathAnd(ri) /\ BothMatched(ri)
    /\ last_events[P_A] = "none"
    /\ last_events[P_B] \in FileOrigins

\* ---- C22 ----

HasFail == \E i \in 1..Len(cfg) : cfg[i].fail # <<>>

\* C22: once a document with a rule that carries a non-empty fail clause has
\* been parsed, a diagnostic is recorded, the configuration is rejected and no
\* artifact is ever written for it.
C22_FailClauseRejected ==
    (HasFail /\ pc # "parse") => (errs > 0 /\ pc = "rejected" /\ container = NoContainer)

\* ---- C20 ----

\* The regex leaves of a pass clause whose argument list is not 2 long, and
\* those with more than 2 arguments
RECURSIVE wrong_arity_leaves(_, _)
wrong_arity_leaves(nodes, lens) ==
    IF nodes = <<>> THEN 0
    ELSE (IF Head(nodes).k \in {"and", "or"} THEN wrong_arity_leaves(Head(nodes).ch, lens)
          ELSE IF Head(nodes).k = "regex" /\ Len(Head(nodes).args) \in lens THEN 1
          ELSE 0)
         + wrong_arity_leaves(Tail(nodes), lens)

RECURSIVE WrongArity(_, _)
WrongArity(doc, lens) ==
    IF doc = <<>> THEN 0
    ELSE wrong_arity_leaves(Head(doc).pass, lens) + WrongArity(Tail(doc), lens)

\* Every registered leaf has 2 arguments
RegisteredHaveTwoArgs ==
    \A ri \in 1..Len(expr_checks) :
       \A k \in 1..Len(expr_checks[ri].expr_transitions) :
          Len(expr_checks[ri].expr_transitions[k].args) = 2

\* C20: a regex leaf with 0, 1, 3 or more arguments adds a diagnostic, is not
\* registered in the expression transition list, and parsing goes on to the
\* end of the document (one diagnostic for every such leaf).
C20_WrongArityIsDiagnosed ==
    (pc # "parse" /\ WrongArity(cfg, {0, 1, 3, 4}) > 0) =>
       /\ pc = "rejected"
       /\ errs >= WrongArity(cfg, {0, 1, 3, 4})
       /\ RegisteredHaveTwoArgs

\* The part of C20 the code keeps: leaves with 3 or more arguments, in
\* documents without a leaf of fewer than 2
C20_TooManyArgsIsDiagnosed ==
    (pc # "parse" /\ WrongArity(cfg, {3, 4}) > 0 /\ WrongArity(cfg, {0, 1}) = 0) =>
       /\ pc = "rejected"
       /\ errs >= WrongArity(cfg, {3, 4})
       /\ RegisteredHaveTwoArgs


-----------------------------------------------------------------------------
(* The tag from the compiler to the verifier                                *)

\* The byte values the tags of the run are made of
TagBytes == {0, 1, 2, 3, 15, 16, 127, 128, 129, 254, 255}

InitTag ==
    /\ fpc = "in"
    /\ \E tag \in [1..TagLen -> TagBytes] : fin = [tag |-> tag]
    /\ fout = <<>>
    /\ PipelineIdle
    /\ ThreadsIdle

\* encode_expressions: Integer::from_digits(tag.as_slice(), Order::Msf)
StoreTag ==
    /\ fpc = "in"
    /\ fpc' = "mid"
    /\ fout' = [aes_gcm_tag |-> from_digits_msf(fin.tag)]
    /\ UNCHANGED <<fin, mvars, tvars>>

\* the evaluator: to_bytes, rev, take, resize
RebuildTag ==
    /\ fpc = "mid"
    /\ fpc' = "out"
    /\ fout' = [aes_gcm_tag |-> fout.aes_gcm_tag,
                tag_buffer  |-> tag_buffer_of(fout.aes_gcm_tag)]
    /\ UNCHANGED <<fin, mvars, tvars>>

NextTag == StoreTag \/ RebuildTag

SpecTag == InitTag /\ [][NextTag]_vars

\* C14: the bytes the runtime rebuilds from the stored integer are the bytes
\* of the tag the compiler produced, for every tag, also one whose first byte
\* is 0x00.
C14_TagRoundTrip == fpc = "out" => fout.tag_buffer = fin.tag

\* The tags for which the rebuilt bytes are the compiler's: those whose first
\* byte is not 0x00, and the all-zero tag
C14_TagRoundTripNoLeadingZero ==
    fpc = "out" =>
       (fout.tag_buffer = fin.tag
           <=> (fin.tag[1] # 0 \/ \A k \in 1..TagLen : fin.tag[k] = 0))


-----------------------------------------------------------------------------
(* The ciphertext from the compiler to the decryption                      *)

MaxCiphertextLen == 3

\* The byte values the ciphertexts of the run are made of
CiphertextBytes == {0, 1, 128, 255}

InitCiphertext ==
    /\ fpc = "in"
    /\ \E buffer \in SeqsOf(CiphertextBytes, 1, MaxCiphertextLen) : fin = [buffer |-> buffer]
    /\ fout = <<>>
    /\ PipelineIdle
    /\ ThreadsIdle

\* encode_expressions: Integer::from_digits(buffer.as_slice(), Order::Msf)
StoreCiphertext ==
    /\ fpc = "in"
    /\ fpc' = "mid"
    /\ fout' = [ciphertext |-> from_digits_msf(fin.buffer)]
    /\ UNCHANGED <<fin, mvars, tvars>>

\* the evaluator: plain_buffer.extend_from_slice(ciphertext.to_bytes() .. rev())
RebuildCiphertext ==
    /\ fpc = "mid"
    /\ fpc' = "out"
    /\ fout' = [ciphertext   |-> fout.ciphertext,
                plain_buffer |-> plain_buffer_of(fout.ciphertext)]
    /\ UNCHANGED <<fin, mvars, tvars>>

NextCiphertext == StoreCiphertext \/ RebuildCiphertext

SpecCiphertext == InitCiphertext /\ [][NextCiphertext]_vars

\* C38: the bytes the runtime hands to AES-GCM (the little-endian bytes of
\* the stored integer, reversed) are the compiler's ciphertext bytes, in
\* content and in length, for every ciphertext, also one whose first byte is
\* 0x00.
C38_CiphertextRoundTrip ==
    fpc = "out" => /\ Len(fout.plain_buffer) = Len(fin.buffer)
                   /\ fout.plain_buffer = fin.buffer

\* The ciphertexts for which the rebuilt bytes are the compiler's: those
\* whose first byte is not 0x00
C38_RoundTripIffNoLeadingZero ==
    fpc = "out" => (fout.plain_buffer = fin.buffer <=> fin.buffer[1] # 0)


-----------------------------------------------------------------------------
(* Claims about the report                                                  *)

\* C18: in every tick report.html is written and the notification is shown
\* if and only if the hash of the scored set differs from the hash kept from
\* the previous tick; a tick with an unchanged scored set writes no report and
\* shows no notification.
C18_ReportAndNotifyIffChanged ==
    [][check_id' # check_id =>
          /\ (report' # report) <=> (hash_vec(scored_vulns') # old_hash)
          /\ notified' <=> (hash_vec(scored_vulns') # old_hash)]_vars

\* What the ticks do: the notification is shown if and only if the hash
\* differs, the report is written in every tick.
C18_NotifyIffChangedReportAlways ==
    [][check_id' # check_id =>
          /\ report' = render(check_id, scored_vulns')
          /\ report' # report
          /\ notified' <=> (hash_vec(scored_vulns') # old_hash)]_vars


-----------------------------------------------------------------------------
(* The threads of the engine: the providers send events, the collector      *)
(* gathers them into a map per scoring window and forwards the map, the     *)
(* evaluator loop receives the maps.  What the evaluator does with a map is *)
(* Tick above; here the maps it has processed are only recorded.            *)

MaxSenders == 2
MaxEvents == 3
MaxForwards == 2

EventMetas ==
    { [origin |-> "Fanotify", event_type |-> "Write"],
      [origin |-> "Fanotify", event_type |-> "Delete"] }

\* HashMap::new()
NoMap == <<>>

\* An insert that keeps the entry the map already has
insert_first(map, path, metadata) ==
    Map([q \in DOMAIN map \cup {path} |-> IF q \in DOMAIN map THEN map[q] ELSE metadata])

\* event_map.insert(event.0, event.1)
insert(map, path, metadata) ==
    Map([q \in DOMAIN map \cup {path} |-> IF q = path THEN metadata ELSE map[q]])

\* A forward that leaves the map as it is
take_kept(map) == map

\* What take(&mut event_map) leaves behind
take(map) == NoMap

\* A receive that reports the disconnection before the channel is drained
try_recv_eager(chan, n_senders) ==
    IF n_senders = 0 THEN "Disconnected"
    ELSE IF chan # <<>> THEN "Ok"
    ELSE "Empty"

\* event_rx.try_recv(): Ok while an event is queued, then Empty while a
\* Sender is alive, Disconnected when none is
try_recv(chan, n_senders) ==
    IF chan # <<>> THEN "Ok"
    ELSE IF n_senders > 0 THEN "Empty"
    ELSE "Disconnected"

InitThreads ==
    /\ fpc = "off"
    /\ fin = <<>>
    /\ fout = <<>>
    /\ PipelineIdle
    /\ senders \in 1..MaxSenders
    /\ event_chan = <<>>
    /\ sent = 0
    /\ event_map = NoMap
    /\ set_chan = <<>>
    /\ collector_pc = "run"
    /\ evaluator_pc = "run"
    /\ window = <<>>
    /\ forwarded = <<>>
    /\ processed = <<>>

\* A provider sends an event
ProviderSend ==
    /\ senders > 0
    /\ sent < MaxEvents
    /\ \E path \in PathSet : \E metadata \in EventMetas :
          event_chan' = Append(event_chan, <<path, metadata>>)
    /\ sent' = sent + 1
    /\ UNCHANGED <<fvars, mvars, senders, event_map, set_chan, collector_pc, evaluator_pc,
                   window, forwarded, processed>>

\* A provider thread ends and its Sender is dropped
ProviderExit ==
    /\ senders > 0
    /\ senders' = senders - 1
    /\ UNCHANGED <<fvars, mvars, event_chan, sent, event_map, set_chan, collector_pc,
                   evaluator_pc, window, forwarded, processed>>

\* One iteration of the collector loop: the forward when the interval has
\* elapsed, then one try_recv
CollectorLoop ==
    /\ collector_pc = "run"
    /\ \E elapsed \in BOOLEAN :
         /\ elapsed => Len(forwarded) < MaxForwards
         /\ LET moved_set == event_map
                kept      == IF elapsed THEN take(event_map) ELSE event_map
                since     == IF elapsed THEN <<>> ELSE window
                received  == try_recv(event_chan, senders)
            IN  /\ set_chan' = IF elapsed /\ evaluator_pc = "run"
                               THEN Append(set_chan, moved_set) ELSE set_chan
                /\ forwarded' = IF elapsed
                                THEN Append(forwarded, [map |-> moved_set, window |-> window])
                                ELSE forwarded
                /\ IF received = "Ok"
                   THEN /\ event_map' = insert(kept, Head(event_chan)[1], Head(event_chan)[2])
                        /\ event_chan' = Tail(event_chan)
                        /\ window' = Append(since, Head(event_chan))
                        /\ collector_pc' = collector_pc
                   ELSE /\ event_map' = kept
                        /\ event_chan' = event_chan
                        /\ window' = since
                        /\ collector_pc' = IF received = "Disconnected" THEN "done"
                                           ELSE collector_pc
    /\ UNCHANGED <<fvars, mvars, senders, sent, evaluator_pc, processed>>

\* One iteration of the evaluator loop: set_rx.recv() blocks while no map is
\* queued and the collector is alive
EvaluatorLoop ==
    /\ evaluator_pc = "run"
    /\ IF set_chan # <<>>
       THEN /\ processed' = Append(processed, Head(set_chan))
            /\ set_chan' = Tail(set_chan)
            /\ evaluator_pc' = evaluator_pc
       ELSE /\ collector_pc = "done"
            /\ evaluator_pc' = "done"
            /\ UNCHANGED <<set_chan, processed>>
    /\ UNCHANGED <<fvars, mvars, senders, event_chan, sent, event_map, collector_pc, window,
                   forwarded>>

NextThreads == ProviderSend \/ ProviderExit \/ CollectorLoop \/ EvaluatorLoop

SpecThreads == InitThreads /\ [][NextThreads]_vars

\* Both loops run whenever they can do something
FairThreads ==
    InitThreads /\ [][NextThreads]_vars /\ WF_vars(CollectorLoop) /\ WF_vars(EvaluatorLoop)

\* ---- C15 ----

PathsOf(log) == {log[i][1] : i \in 1..Len(log)}

\* For every path of the log the metadata of the last event of that path
LatestOf(log) ==
    Map([q \in PathsOf(log) |-> log[Max({i \in 1..Len(log) : log[i][1] = q})][2]])

\* C15: within one scoring window the collector keeps one entry per path, the
\* metadata of the event received last for that path; the map forwarded at
\* the end of the window holds exactly these entries.
C15_LatestWinsPerPath ==
    collector_pc # "off" =>
       /\ event_map = LatestOf(window)
       /\ \A k \in 1..Len(forwarded) : forwarded[k].map = LatestOf(forwarded[k].window)

C15_Witness ==
    /\ Len(forwarded) = 1
    /\ Len(forwarded[1].window) = 3
    /\ forwarded[1].window[1][1] = P_A
    /\ forwarded[1].window[2][1] = P_B
    /\ forwarded[1].window[3][1] = P_A
    /\ forwarded[1].window[1][2] # forwarded[1].window[3][2]
    /\ forwarded[1].map[P_A] = forwarded[1].window[3][2]
    /\ forwarded[1].map[P_B] = forwarded[1].window[2][2]

\* ---- C16 ----

ForwardedMaps == Vec([k \in 1..Len(forwarded) |-> forwarded[k].map])

ForwardedEvents == ConcatAll([k \in 1..Len(forwarded) |-> forwarded[k].window])

\* C16: a forward sends the whole map and the collector goes on with an empty
\* one, so a forwarded map has entries only for the paths of the events
\* received since the forward before it, and every received event belongs to
\* one window; the evaluator receives the maps in the order they were
\* forwarded and processes each of them once.
C16_ForwardedOnceInOrder ==
    collector_pc # "off" =>
       /\ \A k \in 1..Len(forwarded) : DOMAIN forwarded[k].map = PathsOf(forwarded[k].window)
       /\ DOMAIN event_map = PathsOf(window)
       /\ Len(ForwardedEvents) + Len(window) + Len(event_chan) = sent
       /\ processed \o set_chan = ForwardedMaps

C16_Witness ==
    /\ Len(forwarded) = 2
    /\ DOMAIN forwarded[1].map = {P_A}
    /\ DOMAIN forwarded[2].map = {P_B}
    /\ processed = ForwardedMaps
    /\ set_chan = <<>>

\* ---- C17 ----

InMapOrReplaced(f, i) ==
    \/ /\ f.window[i][1] \in DOMAIN f.map
       /\ f.map[f.window[i][1]] = f.window[i][2]
    \/ \E j \in (i + 1)..Len(f.window) : f.window[j][1] = f.window[i][1]

\* C35: every event the collector receives is forwarded to the evaluator in
\* exactly one map, unless a later event of the same window replaces it;
\* this holds for the events of the window in which the event channel
\* disconnects as well, so when the collector has ended no received event is
\* left outside the forwarded maps.
C35_EveryReceivedEventIsForwarded ==
    /\ \A k \in 1..Len(forwarded) :
          \A i \in 1..Len(forwarded[k].window) : InMapOrReplaced(forwarded[k], i)
    /\ processed \o set_chan = ForwardedMaps
    /\ collector_pc = "done" => (window = <<>> /\ event_map = NoMap)

\* The same for the windows that ended with a forward; the events of the
\* window in which the channel disconnects stay in the collector's map,
\* which is dropped with the thread
C35_ForwardedWindowsOnly ==
    /\ \A k \in 1..Len(forwarded) :
          \A i \in 1..Len(forwarded[k].window) : InMapOrReplaced(forwarded[k], i)
    /\ processed \o set_chan = ForwardedMaps
    /\ collector_pc = "done" => event_map = LatestOf(window)


-----------------------------------------------------------------------------
(* The two walks of a tick that follow values read from the polynomials:   *)
(* the L1 record walk of an event path and the ident-chain unrolling of a  *)
(* tuple of ident_eval_stack.  The layers are interpolated over scaled     *)
(* fields from the points of a compiled rule with one leaf, the event path *)
(* is one that no rule references, so the walks read the polynomials at    *)
(* integers that are not among the points.                                 *)

\* Scaled P_L1 (9 bits: four parts of 2 bits) and P_L2 (4 bits)
WalkModuliL1 == {257, 263}
WalkModuliL2 == {11, 13}

\* The x of the L1 points: vuln_text_ptr1, aes_gcm_tag_ptr1, the path of the leaf
WalkL1Xs == <<5, 9, 47>>

\* The path of the event, which no rule references
WalkEventPath == 98

\* Ciphertexts and tags the sealing may produce, and var_1 values (part 0,
\* the next pointer, without the has-next bit)
WalkSealed == {77, 130, 200}
WalkVars == {27, 100}

\* The x of the L2 points: var_ident_ptr1, expr_dfa_start_ptr1, next_test_ident_ptr1
WalkL2Xs == <<1, 2, 3>>
WalkL2Ys == {0, 3, 6, 7}

\* The next_test_ident_ptr1 a record read off the points may hold
WalkIdentPtrs == {0, 4}

InitWalk ==
    /\ fpc = "vars"
    /\ \E p_l1 \in WalkModuliL1 : \E p_l2 \in WalkModuliL2 :
       \E ciphertext \in WalkSealed : \E aes_gcm_tag \in WalkSealed :
       \E var_1 \in WalkVars : \E l2_ys \in [1..3 -> WalkL2Ys] :
       \E ptr \in WalkIdentPtrs :
         \E l1 \in {generate_poly(WalkL1Xs, <<ciphertext, aes_gcm_tag, var_1>>, p_l1)} :
         \E l2 \in {generate_poly(WalkL2Xs, l2_ys, p_l2)} :
            /\ fin = [p_l1 |-> p_l1, l1 |-> l1, p_l2 |-> p_l2, l2 |-> l2,
                      var_max |-> get_mth_mask_of_nth_size(4, 4, p_l1),
                      next_test_ident_ptr1 |-> ptr]
            /\ fout = [var_1 |-> evaluate_poly_at_mod(l1, WalkEventPath, p_l1),
                       current_ident |-> 0]
    /\ PipelineIdle
    /\ ThreadsIdle

\* One iteration of while !var_stack.is_empty(): the record is popped, and
\* the record its next pointer leads to is pushed when the pointer has the
\* bit length of var_max; with the stack empty the expression loop starts
\* on the tuple the walk inserted
WalkVar ==
    /\ fpc = "vars"
    /\ LET next_var_ptr1 == get_parts_of_one_nth_size(4, fout.var_1, fin.p_l1)[1]
       IN  IF significant_bits(next_var_ptr1) = significant_bits(fin.var_max)
           THEN /\ fout' = [fout EXCEPT
                              !.var_1 = evaluate_poly_at_mod(fin.l1, next_var_ptr1, fin.p_l1)]
                /\ fpc' = fpc
           ELSE /\ fout' = [fout EXCEPT
                              !.current_ident =
                                  evaluate_poly_at_mod(fin.l2, fin.next_test_ident_ptr1,
                                                       fin.p_l2)]
                /\ fpc' = "idents"
    /\ UNCHANGED <<fin, mvars, tvars>>

\* One iteration of the loop that unrolls the ident chain of a tuple
UnrollIdent ==
    /\ fpc = "idents"
    /\ IF significant_bits(fout.current_ident) = significant_bits(fin.p_l2)
       THEN /\ fout' = [fout EXCEPT
                          !.current_ident =
                              evaluate_poly_at_mod(fin.l2, fout.current_ident, fin.p_l2)]
            /\ fpc' = fpc
       ELSE /\ fout' = fout
            /\ fpc' = "out"
    /\ UNCHANGED <<fin, mvars, tvars>>

NextWalk == WalkVar \/ UnrollIdent

SpecWalk == InitWalk /\ [][NextWalk]_vars

\* Both loops go on while they have something to do
FairWalk == SpecWalk /\ WF_vars(WalkVar) /\ WF_vars(UnrollIdent)

\* ---- C36 ----

-----------------------------------------------------------------------------
(* One leaf compiled into L3 points, and one line walked twice: by the     *)
(* evaluator over the characters of the line on the L3 polynomial, and by  *)
(* walk_transitions over the bytes of the line on the extracted list.      *)

MaxLineLen == 3

\* The characters of a line: ASCII letters, a space, and U+00E9
LineChars == {CH_A, CH_B, SP, CH_E_ACUTE}

\* The check_dfa_start_ptr1 of the leaf
LeafStartPtr == 200

\* str::as_bytes for a string given as its chars: the UTF-8 encoding (code
\* points below U+0800)
RECURSIVE as_bytes(_)
as_bytes(chars) ==
    IF chars = <<>> THEN <<>>
    ELSE LET c == Head(chars)
         IN  (IF c < 128 THEN <<c>> ELSE <<192 + (c \div 64), 128 + (c % 64)>>)
             \o as_bytes(Tail(chars))

InitRefine ==
    /\ fpc = "in"
    /\ \E re \in Regexes \cup {"E"} : \E line \in SeqsOf(LineChars, 0, MaxLineLen) :
          fin = [re |-> re, line |-> line]
    /\ fout = <<>>
    /\ PipelineIdle
    /\ ThreadsIdle

\* encode_expressions for the leaf: the automaton is extracted and its
\* transitions become L3 points, after the point of the start pointer
CompileLeaf ==
    /\ fpc = "in"
    /\ fpc' = "mid"
    /\ LET dfa == parse_class_transitions(LibraryDFA(fin.re), DFA_FIELD_MOD, {})
       IN  fout' = [dfa |-> dfa,
                    l3  |-> << <<LeafStartPtr, dfa.start>> >> \o l3_pairs(dfa.transitions)]
    /\ UNCHANGED <<fin, mvars, tvars>>

\* The evaluator's walk of the line and walk_transitions on the same line.
\* Where the evaluator's walk leaves the points of L3 its state is a field
\* element the compiler did not choose: it may or may not be the accepting
\* state
WalkLine ==
    /\ fpc = "mid"
    /\ ~fout.dfa.panicked
    /\ fpc' = "out"
    /\ \E current_state \in {line_walk(fout.l3, PolyAt(fout.l3, LeafStartPtr), fin.line)} :
       \E reached \in (IF current_state = Junk THEN BOOLEAN
                       ELSE {current_state = fout.dfa.end}) :
          fout' = [dfa |-> fout.dfa, l3 |-> fout.l3,
                   current_state |-> current_state,
                   runtime  |-> reached,
                   compiled |-> walk_transitions(fout.dfa.transitions, fout.dfa.start,
                                                 fout.dfa.end, as_bytes(fin.line))]
    /\ UNCHANGED <<fin, mvars, tvars>>

NextRefine == CompileLeaf \/ WalkLine

SpecRefine == InitRefine /\ [][NextRefine]_vars

\* ---- C37 ----

\* C37: for every line the evaluator's L3 walk ends in the compiled
\* accepting state exactly when walk_transitions over the leaf's extracted
\* transitions accepts the same line, lines with characters that have no
\* transition and lines with non-ASCII characters included.
C37_RuntimeWalkRefinesWalkTransitions ==
    fpc = "out" => (fout.runtime <=> fout.compiled)

\* The two walks agree on the ASCII lines on which the evaluator's walk
\* stays on the points of L3
C37_AgreeOnAsciiLinesWithTransitions ==
    (/\ fpc = "out"
     /\ \A k \in 1..Len(fin.line) : fin.line[k] < 128
     /\ fout.current_state # Junk)
       => (fout.runtime <=> fout.compiled)

\* A line accepted by both walks, every character having a transition
C37_AgreeingCase ==
    /\ fpc = "out"
    /\ fin.re = "AS"
    /\ fin.line = <<CH_A, SP, CH_A>>
    /\ fout.runtime
    /\ fout.compiled


-----------------------------------------------------------------------------
(* The top-level pass sequence and an explicit and list                     *)

MaxChildren == 3

\* The children the pass sequences of the run are made of
PassNodes ==
    { Leaf(P_A, "B"), Leaf(P_B, "AS"), Or(<<Leaf(P_A, "B")>>), And(<<>>),
      And(<<Leaf(P_A, "B"), Leaf(P_A, "AS")>>) }

\* TransitionsBuilder::new and the empty expr_transitions / errs
NewBuilder ==
    [states |-> {}, l2 |-> <<>>, expr |-> <<>>, errs |-> 0, checks |-> <<>>,
     panicked |-> FALSE]

InitAssign ==
    /\ fpc = "in"
    /\ \E children \in SeqsOf(PassNodes, 0, MaxChildren) : fin = [children |-> children]
    /\ fout = <<>>
    /\ PipelineIdle
    /\ ThreadsIdle

\* assign_yaml_transitions on pass: [children]
AssignImplicit ==
    /\ fpc = "in"
    /\ fpc' = "mid"
    /\ fout' = [implicit |-> assign_yaml_transitions(fin.children, NewBuilder)]
    /\ UNCHANGED <<fin, mvars, tvars>>

\* assign_yaml_transitions on pass: [and: [children]], with a builder of its own
AssignExplicit ==
    /\ fpc = "mid"
    /\ fpc' = "out"
    /\ fout' = [implicit |-> fout.implicit,
                explicit |-> assign_yaml_transitions(<<And(fin.children)>>, NewBuilder)]
    /\ UNCHANGED <<fin, mvars, tvars>>

NextAssign == AssignImplicit \/ AssignExplicit

SpecAssign == InitAssign /\ [][NextAssign]_vars

\* C21: the top-level pass sequence gives what an and list with the same
\* children gives: the same start and end, the same chain of transitions, the
\* same L2 pairs and point set, and the same diagnostics, also for an empty
\* sequence.
C21_PassIsAnd == fpc = "out" => fout.implicit = fout.explicit

\* The part of C21 the code keeps: a pass sequence with at least one child
C21_NonEmptyPassIsAnd ==
    (fpc = "out" /\ fin.children # <<>>) => fout.implicit = fout.explicit


-----------------------------------------------------------------------------
(* The unique-point samplers on one shared set                              *)

MaxSamplerModulus == 6
MaxReturned == 3
MaxLabels == 2
MaxDraws == 1

SamplerKinds == {"unique", "flagless", "relabel"}

\* The values one draw of the call can give: generate_point_mod draws below p,
\* the flagless sampler below p with its top bit cleared
draw_range(kind, p) ==
    IF kind = "flagless"
    THEN 0..(set_bit(p, significant_bits(p) - 1, FALSE) - 1)
    ELSE 0..(p - 1)

\* A set whose insert always reports a new element
points_insert_always(points, point) == [fresh |-> TRUE, points |-> points \cup {point}]

\* HashSet::insert: whether the point was new, and the set afterwards
points_insert(points, point) ==
    [fresh |-> point \notin points, points |-> points \cup {point}]

InitSampler ==
    /\ fpc = "idle"
    /\ \E given \in SUBSET (0..(MaxSamplerModulus - 1)) : fin = [given |-> given]
    /\ fout = [points |-> fin.given, returned |-> <<>>, kind |-> "none", p |-> 0,
               need |-> 0, draws |-> 0]
    /\ PipelineIdle
    /\ ThreadsIdle

\* A call of one of the samplers with the shared set; the relabeling of the DFA
\* extractor needs one label for each reachable state
SamplerCall ==
    /\ fpc = "idle"
    /\ Len(fout.returned) < MaxReturned
    /\ \E kind \in SamplerKinds, p \in 2..MaxSamplerModulus, n \in 1..MaxLabels :
         /\ n > 1 => kind = "relabel"
         /\ fout' = [fout EXCEPT !.kind = kind, !.p = p, !.need = n, !.draws = 0]
         \* random_below of a bound that is not positive panics
         /\ fpc' = IF draw_range(kind, p) = {} THEN "panic" ELSE "drawing"
    /\ UNCHANGED <<fin, mvars, tvars>>

\* One iteration of the loop: a draw, points.insert, and the return (or the
\* next label) when the insert succeeded
SamplerIteration ==
    /\ fpc = "drawing"
    /\ \E point \in draw_range(fout.kind, fout.p) :
         \E ins \in {points_insert(fout.points, point)} :
            IF ins.fresh
            THEN /\ fout' = [fout EXCEPT !.points = ins.points,
                                         !.returned = Append(@, [point |-> point, p |-> fout.p]),
                                         !.need = @ - 1]
                 /\ fpc' = IF fout.need = 1 THEN "idle" ELSE "drawing"
            ELSE /\ fout' = [fout EXCEPT !.points = ins.points,
                                         !.draws = Min({@ + 1, MaxDraws})]
                 /\ fpc' = "drawing"
    /\ UNCHANGED <<fin, mvars, tvars>>

NextSampler == SamplerCall \/ SamplerIteration

SpecSampler == InitSampler /\ [][NextSampler]_vars

\* C23: after any sequence of calls of the samplers on one shared set, the
\* returned points are pairwise distinct and different from the points the set
\* held before, each lies in [0,p) of its call and is in the set, and the set
\* has lost no element.
C23_ReturnedPointsUnique ==
    /\ \A i, j \in 1..Len(fout.returned) :
           i # j => fout.returned[i].point # fout.returned[j].point
    /\ \A i \in 1..Len(fout.returned) :
           /\ fout.returned[i].point \in 0..(fout.returned[i].p - 1)
           /\ fout.returned[i].point \in fout.points
           /\ fout.returned[i].point \notin fin.given
    /\ fin.given \subseteq fout.points

\* C23, the step form: no iteration of a sampler removes a point from the set
C23_SetNeverShrinks == [][fout.points \subseteq fout'.points]_vars

\* Three calls of three different kinds have returned on a set that was not
\* empty, one of them after a rejected draw
C23_Witness ==
    /\ fpc = "idle"
    /\ Len(fout.returned) = MaxReturned
    /\ fin.given # {}
    /\ fout.draws > 0
    /\ fout.kind = "flagless"

\* The set holds every value the running call can draw
Exhausted == draw_range(fout.kind, fout.p) \subseteq fout.points

\* C26: a draw made by a call whose set already holds every point of its range
\* ends the call in a fatal error.
C26_ExhaustedIsFatal ==
    [][(fpc = "drawing" /\ Exhausted) => fpc' = "fatal"]_vars

\* What the code does instead: a call on an exhausted set never leaves the loop
C26_ExhaustedKeepsDrawing ==
    [][(fpc = "drawing" /\ Exhausted) => (fpc' = "drawing" /\ fout'.returned = fout.returned)]_vars


-----------------------------------------------------------------------------
(* parse_class_transitions on a point set that is already in use            *)

GivenPoints == PoolLo..(PoolLo + 4)

Dumps == Regexes \cup {"TWO"}

InitExtract ==
    /\ fpc = "in"
    /\ \E re \in Dumps, dfa_states \in SUBSET GivenPoints :
         fin = [re |-> re, dfa_states |-> dfa_states]
    /\ fout = <<>>
    /\ PipelineIdle
    /\ ThreadsIdle

Extract ==
    /\ fpc = "in"
    /\ fpc' = "out"
    /\ fout' = parse_class_transitions(LibraryDFA(fin.re), DFA_FIELD_MOD, fin.dfa_states)
    /\ UNCHANGED <<fin, mvars, tvars>>

NextExtract == Extract

SpecExtract == InitExtract /\ [][NextExtract]_vars

\* The lines of the dump that hold a '*'
Starred(re) == {l \in 1..Len(LibraryDFA(re).lines) : LibraryDFA(re).lines[l].star}

\* C27: when more than one state of the automaton is marked accepting, the
\* extraction fails; it returns no (start, accepting) pair.
C27_SeveralAcceptingFails ==
    (fpc = "out" /\ Cardinality(Starred(fin.re)) > 1) => fout.panicked

\* What the code returns instead: the state of the last line that holds a '*'
C27_LastAcceptingWins ==
    (fpc = "out" /\ Cardinality(Starred(fin.re)) > 1) =>
        /\ ~fout.panicked
        /\ \E k \in 1..Len(fout.transitions) :
              /\ fout.transitions[k][2] = fout.end
              /\ fout.transitions[k][3] = EOI
        /\ \E k \in 1..Len(fout.transitions) :
              /\ fout.transitions[k][2] # fout.end
              /\ fout.transitions[k][3] = EOI

\* The states the returned list reaches from the returned start
Closure(transitions, start) ==
    reach_from({<<t[1], t[2]>> : t \in Range(transitions)}, {start})

Labels(transitions) ==
    {t[1] : t \in Range(transitions)} \cup {t[2] : t \in Range(transitions)}

\* The states of the dump that the start state reaches through printed transitions
Surviving(re) ==
    reach_from({<<LibraryDFA(re).lines[l].state, LibraryDFA(re).lines[l].trans[t].next>> :
                   <<l, t>> \in {<<l, t>> \in (1..Len(LibraryDFA(re).lines)) \X (1..2) :
                                    t <= Len(LibraryDFA(re).lines[l].trans)}},
               {START_STATE})

\* C28: every source of the returned list is reachable from the start; the
\* labels are fresh points, as many as there are surviving states, and every
\* source and target is one of them; for a state and an input (a byte or Eoi)
\* the list holds at most one transition.
C28_ReturnedListIsPrunedAndRelabelled ==
    (fpc = "out" /\ ~fout.panicked) =>
        /\ \A t \in Range(fout.transitions) : t[1] \in Closure(fout.transitions, fout.start)
        /\ Labels(fout.transitions) \cup {fout.start} = fout.states \ fin.dfa_states
        /\ Cardinality(fout.states \ fin.dfa_states) = Cardinality(Surviving(fin.re))
        /\ fin.dfa_states \subseteq fout.states
        /\ \A i, j \in 1..Len(fout.transitions) :
               (i # j /\ fout.transitions[i][1] = fout.transitions[j][1]
                      /\ fout.transitions[i][3] = fout.transitions[j][3]) => FALSE

\* A dump with an unreachable state and a class of two bytes, relabelled on a
\* set that already held the first draws
C28_Witness ==
    /\ fpc = "out"
    /\ fin.re = "CLS"
    /\ PoolLo \in fin.dfa_states
    /\ ~fout.panicked
    /\ Len(fout.transitions) = 6
    /\ Cardinality(fout.states \ fin.dfa_states) = 5


-----------------------------------------------------------------------------
(* zeka_config::checks::reduce_regex.  A regex is the sequence of its       *)
(* characters; the three patterns of the function are matched as the regex  *)
(* crate matches them (leftmost, alternatives in order, greedy).            *)

BACKSLASH == "\\"

\* \s, and the class [ \t]
RxSpace == {" ", "\t", "\n", "\r", "\f"}

RxBlank == {" ", "\t"}

REQ_WS == <<"_", "_", "Z", "E", "K", "A", "_", "R", "E", "Q", "_", "W", "S", "_", "_">>

OPT_WS == <<"_", "_", "Z", "E", "K", "A", "_", "O", "P", "T", "_", "W", "S", "_", "_">>

\* The suffix of s from position i on
From(s, i) == SubSeq(s, i, Len(s))

\* The position after the longest run of characters of set from i on
RECURSIVE run_end(_, _, _)
run_end(s, i, set) == IF i <= Len(s) /\ s[i] \in set THEN run_end(s, i + 1, set) ELSE i

\* str::trim, trim_start_matches('^'), trim_end_matches('$')
rx_trim(s) == Reverse(From(Reverse(From(s, run_end(s, 1, RxSpace))),
                           run_end(Reverse(From(s, run_end(s, 1, RxSpace))), 1, RxSpace)))

trim_start_matches(s, c) == From(s, run_end(s, 1, {c}))

trim_end_matches(s, c) == Reverse(trim_start_matches(Reverse(s), c))

\* An optional quantifier of set at i: the position after it
opt_quant(s, i, set) == IF i <= Len(s) /\ s[i] \in set THEN i + 1 ELSE i

\* The position of the first ']' at or after i, 0 when there is none
RECURSIVE first_close(_, _)
first_close(s, i) ==
    IF i > Len(s) THEN 0 ELSE IF s[i] = "]" THEN i ELSE first_close(s, i + 1)

\* \\s at i: the position after it, 0 when it does not match
backslash_s(s, i) ==
    IF i + 1 <= Len(s) /\ s[i] = BACKSLASH /\ s[i + 1] = "s" THEN i + 2 ELSE 0

\* opener [^\]]+ \] at i for an opener of set: the position after the ']'
bracketed(s, i, openers) ==
    IF i <= Len(s) /\ s[i] \in openers
    THEN LET c == first_close(s, i + 1) IN IF c = 0 \/ c = i + 1 THEN 0 ELSE c + 1
    ELSE 0

\* One iteration of (\\s[\+\*\?]?|[ \t]+|[\[\(\\][^\]]+\][\+\*\?]?) at i, as the
\* greedy match takes it: the position after it, 0 when no alternative matches
ws_group(s, i) ==
    IF backslash_s(s, i) # 0 THEN opt_quant(s, backslash_s(s, i), {"+", "*", "?"})
    ELSE IF i <= Len(s) /\ s[i] \in RxBlank THEN run_end(s, i, RxBlank)
    ELSE IF bracketed(s, i, {"[", "(", BACKSLASH}) # 0
         THEN opt_quant(s, bracketed(s, i, {"[", "(", BACKSLASH}), {"+", "*", "?"})
    ELSE 0

RECURSIVE ws_groups(_, _)
ws_groups(s, i) == IF ws_group(s, i) = 0 THEN i ELSE ws_groups(s, ws_group(s, i))

\* leading_ws.replace(regex, ""): the match at the start is cut off
strip_leading_ws(s) == From(s, run_end(s, ws_groups(s, run_end(s, 1, RxSpace)), RxSpace))

\* The positions one iteration of the group can end in when it starts at i
group_ends(s, i) ==
    (IF backslash_s(s, i) # 0
     THEN {backslash_s(s, i), opt_quant(s, backslash_s(s, i), {"+", "*", "?"})} ELSE {})
    \cup (IF i <= Len(s) /\ s[i] \in RxBlank THEN (i + 1)..run_end(s, i, RxBlank) ELSE {})
    \cup (IF bracketed(s, i, {"[", "(", BACKSLASH}) # 0
          THEN {bracketed(s, i, {"[", "(", BACKSLASH}),
                opt_quant(s, bracketed(s, i, {"[", "(", BACKSLASH}), {"+", "*", "?"})}
          ELSE {})

\* (group)*\s*$ matches from i to the end of s
RECURSIVE groups_to_end(_, _)
groups_to_end(s, i) ==
    \/ run_end(s, i, RxSpace) > Len(s)
    \/ \E e \in group_ends(s, i) : groups_to_end(s, e)

\* \s*(group)*\s*$ matches from i to the end of s
trailing_ws_at(s, i) == \E j \in i..run_end(s, i, RxSpace) : groups_to_end(s, j)

\* trailing_ws.replace(regex, ""): the leftmost match that reaches the end is cut off
strip_trailing_ws(s) ==
    SubSeq(s, 1, Min({i \in 1..(Len(s) + 1) : trailing_ws_at(s, i)}) - 1)

\* A match of
\* (\\s\*|\\s\+|\\s|\\t\*|\\t\+|\\t|[ \t]+|\[[^\]]+\][\*\+]?|\s+)
\* at i: the position after it, 0 when no alternative matches
ws_match(s, i) ==
    IF i + 1 <= Len(s) /\ s[i] = BACKSLASH /\ s[i + 1] \in {"s", "t"}
    THEN opt_quant(s, i + 2, {"*", "+"})
    ELSE IF i <= Len(s) /\ s[i] \in RxBlank THEN run_end(s, i, RxBlank)
    ELSE IF bracketed(s, i, {"["}) # 0 THEN opt_quant(s, bracketed(s, i, {"["}), {"*", "+"})
    ELSE IF i <= Len(s) /\ s[i] \in RxSpace THEN run_end(s, i, RxSpace)
    ELSE 0

\* for m in ws.find_iter(&regex), searching from i with last_end characters
\* already turned into tokens, and the push of the rest after the loop
RECURSIVE find_iter(_, _, _)
find_iter(regex, i, last_end) ==
    IF i > Len(regex)
    THEN IF last_end < Len(regex) THEN <<From(regex, last_end + 1)>> ELSE <<>>
    ELSE IF ws_match(regex, i) = 0 THEN find_iter(regex, i + 1, last_end)
    ELSE (IF i - 1 > last_end THEN <<SubSeq(regex, last_end + 1, i - 1)>> ELSE <<>>)
         \o <<IF regex[ws_match(regex, i) - 1] = "*" THEN OPT_WS ELSE REQ_WS>>
         \o find_iter(regex, ws_match(regex, i), ws_match(regex, i) - 1)

\* The tokens of a source regex
tokenize(regex) ==
    find_iter(strip_trailing_ws(strip_leading_ws(
                  trim_end_matches(trim_start_matches(rx_trim(regex), "^"), "$"))), 1, 0)

\* tokens.remove(i)
remove(tokens, i) == SubSeq(tokens, 1, i - 1) \o SubSeq(tokens, i + 1, Len(tokens))

\* The reduction as it is specified: a run of markers becomes one marker, REQ
\* when the run holds a REQ, and every marker left is rendered
RECURSIVE reduce_tokens_rendering(_, _, _)
reduce_tokens_rendering(tokens, i, reduced) ==
    IF i > Len(tokens) THEN reduced
    ELSE IF tokens[i] \in {REQ_WS, OPT_WS} /\ i < Len(tokens) /\ tokens[i + 1] \in {REQ_WS, OPT_WS}
    THEN reduce_tokens_rendering(remove(tokens, IF tokens[i] = REQ_WS THEN i + 1 ELSE i), i, reduced)
    ELSE reduce_tokens_rendering(tokens, i + 1,
             reduced \o (IF tokens[i] = REQ_WS THEN <<" ">>
                         ELSE IF tokens[i] = OPT_WS THEN <<"(", " ", ")", "?">>
                         ELSE tokens[i]))

\* "Normalize and reduce tokens": the while loop from index i on
RECURSIVE reduce_tokens(_, _, _)
reduce_tokens(tokens, i, reduced) ==
    IF i > Len(tokens) THEN reduced
    ELSE IF tokens[i] = REQ_WS /\ i < Len(tokens) /\ tokens[i + 1] \in {OPT_WS, REQ_WS}
    THEN reduce_tokens(remove(tokens, i + 1), i, reduced)
    ELSE IF tokens[i] = OPT_WS /\ i < Len(tokens) /\ tokens[i + 1] \in {REQ_WS, OPT_WS}
    THEN reduce_tokens(remove(tokens, i), i, reduced)
    ELSE IF tokens[i] = REQ_WS /\ i < Len(tokens)
    THEN reduce_tokens(tokens, i + 2, reduced \o <<" ">> \o tokens[i + 1])
    ELSE IF tokens[i] = OPT_WS /\ i < Len(tokens)
    THEN reduce_tokens(tokens, i + 2, reduced \o <<"(", " ", ")", "?">> \o tokens[i + 1])
    ELSE IF i = Len(tokens) \/ tokens[i + 1] \in {REQ_WS, OPT_WS}
    THEN reduce_tokens(tokens, i + 1, reduced \o tokens[i])
    ELSE reduce_tokens(tokens, i + 2, reduced \o tokens[i] \o tokens[i + 1])

\* format!("^{reduced}$")
reduce_regex(regex) == <<"^">> \o reduce_tokens(tokenize(regex), 1, <<>>) \o <<"$">>

MaxRegexLen == 4

\* The characters the source regexes of the run are written in
RegexAlphabet == {BACKSLASH, "s", "t", "*", "+", " ", "a", "[", "]"}

InitReduce ==
    /\ fpc = "in"
    /\ \E regex \in SeqsOf(RegexAlphabet, 0, MaxRegexLen) : fin = [regex |-> regex]
    /\ fout = <<>>
    /\ PipelineIdle
    /\ ThreadsIdle

\* reduce_regex(regex); the tokens are kept beside the result
ReduceRegex ==
    /\ fpc = "in"
    /\ fpc' = "mid"
    /\ fout' = [tokens |-> tokenize(fin.regex), once |-> reduce_regex(fin.regex)]
    /\ UNCHANGED <<fin, mvars, tvars>>

\* reduce_regex of the reduced regex
ReduceAgain ==
    /\ fpc = "mid"
    /\ fpc' = "out"
    /\ fout' = [tokens |-> fout.tokens, once |-> fout.once, twice |-> reduce_regex(fout.once)]
    /\ UNCHANGED <<fin, mvars, tvars>>

NextReduce == ReduceRegex \/ ReduceAgain

SpecReduce == InitReduce /\ [][NextReduce]_vars


\* ---- C24, C25 ----

\* C24: reducing a reduced regex gives the reduced regex again.
C24_Idempotent == fpc = "out" => fout.twice = fout.once

\* The part of C24 the code keeps: the reduced regex does not begin with the
\* space of a marker
C24_IdempotentWithoutLeadingSpace ==
    (fpc = "out" /\ fout.once[2] # " ") => fout.twice = fout.once

Contains(s, sub) ==
    \E i \in 1..(Len(s) - Len(sub) + 1) : SubSeq(s, i, i + Len(sub) - 1) = sub

\* C25: the reduced regex is the token sequence with every maximal run of
\* markers collapsed into one (REQ when the run holds a REQ) and every marker
\* rendered, REQ as a space and OPT as ( )?, whatever its position; the names
\* of the markers do not appear in it.
C25_MarkersCollapsedAndRendered ==
    fpc \in {"mid", "out"} =>
        /\ fout.once = <<"^">> \o reduce_tokens_rendering(fout.tokens, 1, <<>>) \o <<"$">>
        /\ ~Contains(fout.once, REQ_WS)
        /\ ~Contains(fout.once, OPT_WS)

\* The part of C25 the code keeps: the last token is not a marker
C25_RenderedUnlessLastIsMarker ==
    (/\ fpc \in {"mid", "out"}
     /\ fout.tokens # <<>> => fout.tokens[Len(fout.tokens)] \notin {REQ_WS, OPT_WS})
    => /\ fout.once = <<"^">> \o reduce_tokens_rendering(fout.tokens, 1, <<>>) \o <<"$">>
       /\ ~Contains(fout.once, REQ_WS)
       /\ ~Contains(fout.once, OPT_WS)


-----------------------------------------------------------------------------
(* The length limit of a rule's text and the size of its ciphertext.  The   *)
(* integers are wider than a machine word: one is kept as the sequence of   *)
(* its bytes, most significant first, without leading zero bytes.           *)

\* Integer::from_digits(bytes, Order::Msf) as a wide integer
RECURSIVE big_from_digits_msf(_)
big_from_digits_msf(bytes) ==
    IF bytes # <<>> /\ Head(bytes) = 0 THEN big_from_digits_msf(Tail(bytes)) ELSE bytes

\* significant_bits of a wide integer
big_significant_bits(big) ==
    IF big = <<>> THEN 0 ELSE 8 * (Len(big) - 1) + significant_bits(big[1])

\* a < b for wide integers
RECURSIVE big_less(_, _)
big_less(a, b) ==
    IF Len(a) # Len(b) THEN Len(a) < Len(b)
    ELSE IF a = <<>> THEN FALSE
    ELSE IF Head(a) # Head(b) THEN Head(a) < Head(b)
    ELSE big_less(Tail(a), Tail(b))

MinModulusBytes == 9
MaxModulusBytes == 11
MaxTextLen == 4

\* The L1 moduli of the run: 65 to 88 bits
WideModuli ==
    { <<top>> \o [k \in 1..(n - 1) |-> low] :
         top \in {1, 152, 255}, n \in MinModulusBytes..MaxModulusBytes, low \in {0, 255} }

\* The bytes encrypt_in_place_detached may leave in one place of the buffer
CipherBytes == {0, 1, 255}

InitCipher ==
    /\ fpc = "in"
    /\ \E p \in WideModuli, n \in 0..MaxTextLen : fin = [p |-> p, text |-> [k \in 1..n |-> 88]]
    /\ fout = <<>>
    /\ PipelineIdle
    /\ ThreadsIdle

\* parse_yaml_doc on one check: the length of "<msg> - <pts> pts" is compared,
\* then the category byte is put in front
CheckText ==
    /\ fpc = "in"
    /\ IF Len(fin.text) > max_bytes(big_significant_bits(fin.p))
       THEN /\ fpc' = "rejected"
            /\ fout' = [errs |-> 1, expr_checks |-> <<>>]
       ELSE /\ fpc' = "accepted"
            /\ \E cat \in {0, Len(CATEGORIES) - 1} :
                  fout' = [errs |-> 0, expr_checks |-> << <<cat>> \o fin.text >>]
    /\ UNCHANGED <<fin, mvars, tvars>>

\* encode_expressions on the check: the buffer is encrypted in place and read
\* as an integer
SealText ==
    /\ fpc = "accepted"
    /\ fpc' = "sealed"
    /\ \E buffer \in [1..Len(fout.expr_checks[1]) -> CipherBytes] :
          fout' = [errs |-> fout.errs, expr_checks |-> fout.expr_checks,
                   buffer |-> buffer, ciphertext |-> big_from_digits_msf(buffer)]
    /\ UNCHANGED <<fin, mvars, tvars>>

NextCipher == CheckText \/ SealText

SpecCipher == InitCipher /\ [][NextCipher]_vars

\* C31: a rule whose text is longer than bits(P_L1)/8 - 8 bytes records a
\* diagnostic and is not compiled, a rule whose text fits is compiled without
\* one, and the ciphertext of every compiled rule (the text and the category
\* byte), read most significant byte first, is below P_L1.
C31_TextLimitKeepsCiphertextBelowModulus ==
    /\ fpc = "rejected" =>
          /\ Len(fin.text) > big_significant_bits(fin.p) \div 8 - 8
          /\ fout.errs > 0
          /\ fout.expr_checks = <<>>
    /\ fpc \in {"accepted", "sealed"} =>
          /\ Len(fin.text) <= big_significant_bits(fin.p) \div 8 - 8
          /\ fout.errs = 0
    /\ fpc = "sealed" =>
          /\ Len(fout.buffer) = Len(fin.text) + 1
          /\ big_less(fout.ciphertext, fin.p)

\* The longest text an 88-bit modulus lets through, sealed to all 0xff bytes
C31_Witness ==
    /\ fpc = "sealed"
    /\ big_significant_bits(fin.p) = 88
    /\ Len(fin.text) = 3
    /\ fout.ciphertext = <<255, 255, 255, 255>>


-----------------------------------------------------------------------------
(* The widths of the packed records with the moduli of consts.rs.  An      *)
(* integer of more than 31 bits is kept as the sequence of its bits, most  *)
(* significant first, without leading zeros (zero is the empty sequence).  *)

Ones(k) == [i \in 1..k |-> 1]

Zeros(k) == [i \in 1..k |-> 0]

RECURSIVE wide_strip(_)
wide_strip(b) == IF b # <<>> /\ Head(b) = 0 THEN wide_strip(Tail(b)) ELSE b

\* Integer::from(n) for a small n
RECURSIVE wide_of(_)
wide_of(n) == IF n = 0 THEN <<>> ELSE wide_of(n \div 2) \o <<n % 2>>

\* One halving of a decimal numeral: digit i takes the remainder of digit i - 1
halve(digits) ==
    Vec([i \in 1..Len(digits) |->
            (digits[i] + (IF i > 1 THEN 10 * (digits[i - 1] % 2) ELSE 0)) \div 2])

\* The bits of a decimal numeral, eight per step, the lowest last
RECURSIVE decimal_bits(_)
decimal_bits(digits) ==
    IF \A i \in 1..Len(digits) : digits[i] = 0 THEN <<>>
    ELSE LET d1 == halve(digits)
             d2 == halve(d1)
             d3 == halve(d2)
             d4 == halve(d3)
             d5 == halve(d4)
             d6 == halve(d5)
             d7 == halve(d6)
             low(d) == d[Len(d)] % 2
         IN  decimal_bits(halve(d7))
                \o <<low(d7), low(d6), low(d5), low(d4), low(d3), low(d2), low(d1),
                     low(digits)>>

\* "<decimal digits>".parse::<Integer>()
parse_integer(digits) == wide_strip(decimal_bits(digits))

\* a < b
wide_less(a, b) ==
    \/ Len(a) < Len(b)
    \/ /\ Len(a) = Len(b)
       /\ \E i \in 1..Len(a) : a[i] < b[i] /\ \A j \in 1..(i - 1) : a[j] = b[j]

\* x - 1, for x > 0
wide_pred(x) ==
    LET i == Max({k \in 1..Len(x) : x[k] = 1})
    IN  wide_strip(Vec([k \in 1..Len(x) |-> IF k < i THEN x[k] ELSE IF k = i THEN 0 ELSE 1]))

RECURSIVE wide_sub(_, _)
wide_sub(x, n) == IF n = 0 THEN x ELSE wide_sub(wide_pred(x), n - 1)

\* x.set_bit(k, true)
wide_set_bit(x, k) ==
    IF k < Len(x) THEN [x EXCEPT ![Len(x) - k] = 1]
    ELSE <<1>> \o Zeros(k - Len(x)) \o x

\* p.set_bit(p.significant_bits() - 1, false)
wide_clear_top(p) == wide_strip(Tail(p))

\* get_eligible_bits_of_nth_size: when n * eligible_bits is the bit length of
\* p the mask is the top eligible_bits bits, and mask & p is below the mask
\* when one of these bits of p is 0
wide_eligible_bits(n, p) ==
    LET eligible_bits == Len(p) \div n
    IN  IF eligible_bits * n = Len(p) /\ \E i \in 1..eligible_bits : p[i] = 0
        THEN eligible_bits - 1
        ELSE eligible_bits

\* get_mth_mask_of_nth_size
wide_mth_mask(m, n, p) ==
    LET eligible_bits == wide_eligible_bits(n, p)
    IN  Ones(eligible_bits) \o Zeros(eligible_bits * (Len(p) \div eligible_bits - m))

WidePanic == <<Unwind>>

\* pack_nth_parts_into_size: parts that pass the size check are laid side by
\* side, max_expected bits each
wide_pack(parts, n, p) ==
    LET max_expected == wide_eligible_bits(n, p)
    IN  IF Len(parts) # n \/ \E i \in 1..Len(parts) : Len(parts[i]) > max_expected
        THEN WidePanic
        ELSE wide_strip(ConcatAll([i \in 1..n |->
                 Zeros(max_expected - Len(parts[i])) \o parts[i]]))

\* consts.rs: the decimal numerals of the moduli
VULN_FIELD_MOD_DIGITS == [i \in 1..161 |-> IF i % 2 = 1 THEN 9 ELSE 8]

EXPR_FIELD_MOD_DIGITS == [i \in 1..77 |-> IF i = 1 THEN 7 ELSE 9]

WIDE_VULN_FIELD_MOD == parse_integer(VULN_FIELD_MOD_DIGITS)

WIDE_EXPR_FIELD_MOD == parse_integer(EXPR_FIELD_MOD_DIGITS)

WIDE_VAR_COMPONENT_MAX == wide_mth_mask(4, 4, WIDE_VULN_FIELD_MOD)

WIDE_EXPR_COMPONENT_MAX == wide_mth_mask(4, 4, WIDE_VAR_COMPONENT_MAX)

\* A has-next bit put at the bit length of the modulus
has_next_bit_at_modulus == Len(WIDE_VULN_FIELD_MOD)

\* consts::VAR_COMPONENT_MAX.significant_bits() * 4 - 1
has_next_bit_of_var == Len(WIDE_VAR_COMPONENT_MAX) * 4 - 1

\* The k-th point drawn below bound (p.random_below_ref(rng), unique in
\* builder.states): a small value, or the k-th largest
Draws(bound, k) == {wide_of(k), wide_sub(bound, k)}

InitLayout ==
    /\ fpc = "in"
    /\ \E vuln_text_ptr1 \in Draws(WIDE_EXPR_COMPONENT_MAX, 1) :
       \E aes_gcm_tag_ptr1 \in Draws(WIDE_EXPR_COMPONENT_MAX, 2) :
       \E expr_dfa_start_ptr1 \in Draws(WIDE_EXPR_COMPONENT_MAX, 3) :
       \E next_test_ident_ptr1 \in Draws(WIDE_EXPR_COMPONENT_MAX, 4) :
       \E next_var_ptr1 \in Draws(wide_clear_top(WIDE_VAR_COMPONENT_MAX), 5) :
       \E var_ident_ptr1 \in Draws(WIDE_VAR_COMPONENT_MAX, 6) :
       \E check_dfa_start_ptr1 \in Draws(WIDE_VAR_COMPONENT_MAX, 7) :
       \E var_ident \in Draws(wide_clear_top(WIDE_EXPR_FIELD_MOD), 8) :
       \E ident_next \in BOOLEAN : \E var_next \in BOOLEAN :
          fin = [vuln_text_ptr1 |-> vuln_text_ptr1, aes_gcm_tag_ptr1 |-> aes_gcm_tag_ptr1,
                 expr_dfa_start_ptr1 |-> expr_dfa_start_ptr1,
                 next_test_ident_ptr1 |-> next_test_ident_ptr1,
                 next_var_ptr1 |-> next_var_ptr1, var_ident_ptr1 |-> var_ident_ptr1,
                 check_dfa_start_ptr1 |-> check_dfa_start_ptr1, var_ident |-> var_ident,
                 ident_next |-> ident_next, var_next |-> var_next]
    /\ fout = <<>>
    /\ PipelineIdle
    /\ ThreadsIdle

\* encode_expressions: expr_1 is packed from the four pointers of the rule
PackExpr ==
    /\ fpc = "in"
    /\ fpc' = "expr"
    /\ fout' = [expr_1 |-> wide_pack(<<fin.vuln_text_ptr1, fin.aes_gcm_tag_ptr1,
                                       fin.next_test_ident_ptr1, fin.expr_dfa_start_ptr1>>,
                                     4, WIDE_VAR_COMPONENT_MAX)]
    /\ UNCHANGED <<fin, mvars, tvars>>

\* encode_expressions: the ident of the leaf, with the has-next bit when
\* another leaf follows, and the ident itself are pushed into the L2 list
LinkIdent ==
    /\ fpc = "expr"
    /\ fout.expr_1 # WidePanic
    /\ fpc' = "ident"
    /\ LET next_test_ident2 ==
               IF fin.ident_next
               THEN wide_set_bit(fin.var_ident, Len(WIDE_EXPR_FIELD_MOD) - 1)
               ELSE fin.var_ident
       IN  fout' = [expr_1 |-> fout.expr_1, l2_ys |-> <<next_test_ident2, fin.var_ident>>]
    /\ UNCHANGED <<fin, mvars, tvars>>

\* encode_expressions: var_1 is packed from its four parts
PackVar ==
    /\ fpc = "ident"
    /\ fpc' = "var"
    /\ fout' = [expr_1 |-> fout.expr_1, l2_ys |-> fout.l2_ys,
                var_1  |-> wide_pack(<<fin.next_var_ptr1, fout.expr_1, fin.var_ident_ptr1,
                                       fin.check_dfa_start_ptr1>>, 4, WIDE_VULN_FIELD_MOD)]
    /\ UNCHANGED <<fin, mvars, tvars>>

\* encode_expressions: the record is linked into the list of its path, with
\* the has-next bit when another record follows, and pushed into the L1 list
LinkVar ==
    /\ fpc = "var"
    /\ fout.var_1 # WidePanic
    /\ fpc' = "out"
    /\ fout' = [expr_1 |-> fout.expr_1, l2_ys |-> fout.l2_ys, var_1 |-> fout.var_1,
                linked_var_1 |-> IF fin.var_next
                                 THEN wide_set_bit(fout.var_1, has_next_bit_of_var)
                                 ELSE fout.var_1]
    /\ UNCHANGED <<fin, mvars, tvars>>

NextLayout == PackExpr \/ LinkIdent \/ PackVar \/ LinkVar

SpecLayout == InitLayout /\ [][NextLayout]_vars

\* ---- C39 ----

\* C39: every part handed to pack_nth_parts_into_size fits the eligible bit
\* width, so packing does not fail its size check; every var_1, with or
\* without the has-next bit at position 4 * bits(VAR_MAX) - 1, is below P_L1,
\* and every ident pushed into the L2 list, with or without the has-next
\* bit, is below P_L2.
C39_PackedValuesBelowModulus ==
    /\ fpc \in {"expr", "ident", "var", "out"} =>
          /\ fout.expr_1 # WidePanic
          /\ Len(fout.expr_1) <= wide_eligible_bits(4, WIDE_VULN_FIELD_MOD)
    /\ fpc \in {"ident", "var", "out"} =>
          \A k \in 1..Len(fout.l2_ys) : wide_less(fout.l2_ys[k], WIDE_EXPR_FIELD_MOD)
    /\ fpc \in {"var", "out"} =>
          /\ fout.var_1 # WidePanic
          /\ wide_less(fout.var_1, WIDE_VULN_FIELD_MOD)
    /\ fpc = "out" => wide_less(fout.linked_var_1, WIDE_VULN_FIELD_MOD)

\* The widest record: every pointer is the largest that can be drawn, both
\* has-next bits are set; the linked var_1 has 4 * bits(VAR_MAX) bits, the
\* flagged ident has the bit length of P_L2
C39_Witness ==
    /\ fpc = "out"
    /\ fin.var_next
    /\ fin.ident_next
    /\ Len(fin.vuln_text_ptr1) = Len(WIDE_EXPR_COMPONENT_MAX)
    /\ Len(fin.var_ident_ptr1) = Len(WIDE_VAR_COMPONENT_MAX)
    /\ Len(fout.linked_var_1) = 4 * Len(WIDE_VAR_COMPONENT_MAX)
    /\ fout.linked_var_1 # fout.var_1
    /\ Len(fout.l2_ys[1]) = Len(WIDE_EXPR_FIELD_MOD)
    /\ Len(WIDE_VULN_FIELD_MOD) = VULN_FIELD_BITS


=============================================================================
